---------------------------- MODULE Spec2Model ----------------------------
(***************************************************************************)
(* Last-Vector simulation engine (src/cpp/src/sim.cpp, upgrades.cpp,       *)
(* collision.cpp, observation.cpp) as a state machine.                     *)
(*                                                                         *)
(* Numbers.  The program computes in float32; the model computes in exact  *)
(* fixed point, every quantity an integer multiple of a unit chosen so     *)
(* that the program's constants are integers:                              *)
(*   time       1/600 s          (TimeUnit per second)                     *)
(*   length     1/PosScale arena units                                     *)
(*   velocity   1/PosScale arena units per second                          *)
(*   hit points 1/18000 hp       (HpUnit, so that 26 + 3*t/90 is exact)    *)
(*   stamina    1/1200 point     (StaminaUnit)                             *)
(*   difficulty 1/54000          (elapsed time units / (90 s))             *)
(*   spawn budget 1/27000000 zombie (BudgetUnit)                           *)
(*   directions 1/1000           (DirUnit)                                 *)
(*   reward     1/100000                                                   *)
(* Quotients are truncated toward zero where float32 would round; float32  *)
(* rounding error itself is not modelled.                                  *)
(*                                                                         *)
(* Tick length.  The program's tick is kFixedDt = 1/60 s.  The model runs  *)
(* the same code with a tick TickScale times longer, so that the 20 s      *)
(* upgrade clock, zombie contact and death lie within the checked depth.   *)
(* Every duration of the program (cooldowns, clocks, limits) keeps its     *)
(* value in seconds.                                                       *)
(***************************************************************************)
EXTENDS Integers, Sequences, FiniteSets, TLC

VARIABLES
    sim,      \* the Simulator under test: GameState state_, rng_, upgrade_pause_ticks_
    out,      \* the StepResult of the last step (or the reset marker)
    twin,     \* a second, independent Simulator (used by the two-run specifications)
    twinOut,  \* its last StepResult
    hist      \* history variables of the claims (what happened during the last call)

vars == <<sim, out, twin, twinOut, hist>>

-----------------------------------------------------------------------------
(* Bounds of the model *)

\* the model's tick is TickScale program ticks (of 1/60 s) long
TickScale == 6
\* sub-units per arena length unit
PosScale == 4
\* seeds the driver may pass to reset: 0 .. NumSeeds-1
NumSeeds == 3
\* steps are explored while state_.tick < MaxTick
MaxTick == 216
\* the driver reconsiders its input every HoldTicks ticks
HoldTicks == 120
\* the two-run specification: steps of the earlier episode, steps compared
DriftTicks == 25
TwinTicks == 60
\* the apply_upgrade specification: stacks applied in all
MaxStacks == 7
\* value of kUpgradeChoiceTimeoutTicks, which sim.cpp uses and no file under
\* src/ declares: the model takes a small one
kUpgradeChoiceTimeoutTicks == 3

-----------------------------------------------------------------------------
(* Units *)

TimeUnit == 6 * 100
HpUnit == 18 * 1000
StaminaUnit == 12 * 100
DiffUnit == 90 * TimeUnit
BudgetUnit == 45000 * TimeUnit
DirUnit == 10 * 100

-----------------------------------------------------------------------------
(* Arithmetic helpers *)

Min(a, b) == IF a <= b THEN a ELSE b
Max(a, b) == IF a >= b THEN a ELSE b
Clamp(x, lo, hi) == Max(lo, Min(x, hi))

\* quotient truncated toward zero
Quot(a, b) == IF a >= 0 THEN a \div b ELSE -((-a) \div b)

RECURSIVE SqrtIter(_, _, _)
SqrtIter(n, lo, hi) ==
    IF lo >= hi THEN lo
    ELSE LET mid == (lo + hi + 1) \div 2
         IN  IF mid * mid <= n THEN SqrtIter(n, mid, hi) ELSE SqrtIter(n, lo, mid - 1)

\* floor of the square root, 0 <= n < 2^31
ISqrt(n) == SqrtIter(n, 0, 46340)

-----------------------------------------------------------------------------
(* config.hpp *)

kFixedDt == 10 * TickScale
kArenaWidth == 4200 * PosScale
kArenaHeight == 2800 * PosScale
kPlayerSpawnX == kArenaWidth \div 2
kPlayerSpawnY == kArenaHeight \div 2
kEpisodeLimitSeconds == 180 * TimeUnit
kPlayerRadius == 10 * PosScale
kZombieRadius == 10 * PosScale
kZombieObsCount == 8
kRayCount == 16

\* observation.cpp, file-scope constant
kRayRange == 320 * PosScale

\* sim.cpp, file-scope constants
kZombieSeparationRadius == 22 * PosScale
kMaxSeparationCorrectionPerTick == 4 * PosScale

\* upgrade.hpp: enum class UpgradeId
RingOfFire == 0
BigShot == 1
PiercingRounds == 2
FrostRounds == 3
FastHands == 4
ExtendedMag == 5
Cardio == 6
SecondWind == 7
UpgradeCount == 8

UpgradeIds == 0 .. (UpgradeCount - 1)

-----------------------------------------------------------------------------
(* rng.hpp: DeterministicRng.  std::mt19937_64 is modelled by a linear      *)
(* congruential generator: like the engine, its state after reseed is a    *)
(* function of the seed alone and every draw advances it by one step.      *)

RngModulus == 65537

reseed(seed) == (seed * 7919 + 12345) % RngModulus

RngAdvance(r) == (75 * r + 74) % RngModulus

\* uniform_int(lo, hi): <<value, engine state after the draw>>
uniform_int(r, lo, hi) ==
    LET n == RngAdvance(r) IN <<lo + ((n \div 7) % (hi - lo + 1)), n>>

\* uniform(lo, hi) on lengths given in arena units: <<value in sub-units, state>>
uniform(r, lo, hi) ==
    LET n == RngAdvance(r) IN <<(lo + ((hi - lo) * n) \div RngModulus) * PosScale, n>>


-----------------------------------------------------------------------------
(* upgrades.cpp *)

\* build_upgrade_catalog(): max_stacks by upgrade id
build_upgrade_catalog ==
    [id \in UpgradeIds |->
        CASE id = RingOfFire -> 5
          [] id = BigShot -> 3
          [] id = PiercingRounds -> 3
          [] id = FrostRounds -> 4
          [] id = FastHands -> 4
          [] id = ExtendedMag -> 5
          [] id = Cardio -> 5
          [] id = SecondWind -> 1]

\* apply_upgrade with the cap test dropped
apply_upgrade_uncapped(state, id) ==
    [state EXCEPT !.levels[id] = @ + 1]

\* apply_upgrade(UpgradeState& state, UpgradeId id)
apply_upgrade(state, id) ==
    IF state.levels[id] >= build_upgrade_catalog[id]
    THEN state
    ELSE [state EXCEPT !.levels[id] = @ + 1]

-----------------------------------------------------------------------------
(* state.hpp: default member initialisers *)

Vec2(x, y) == [x |-> x, y |-> y]

PlayerInit ==
    [pos |-> Vec2(kPlayerSpawnX, kPlayerSpawnY),
     vel |-> Vec2(0, 0),
     health |-> 100,
     max_health |-> 100,
     stamina |-> 100 * StaminaUnit,
     max_stamina |-> 100 * StaminaUnit,
     mag |-> 12,
     mag_capacity |-> 12,
     reserve |-> 120,
     shoot_cd |-> 0,
     reload_timer |-> 0,
     invuln_timer |-> 0]

UpgradeStateInit ==
    [levels |-> [id \in UpgradeIds |-> 0], second_wind_used |-> FALSE]

RuntimeStatsInit ==
    [kills |-> 0, damage_taken |-> 0, shots_fired |-> 0, shots_hit |-> 0, damage_dealt |-> 0]

\* GameState{} ; obstacles are the constant list of init_obstacles()
GameStateInit ==
    [seed |-> 0,
     tick |-> 0,
     episode_time_s |-> 0,
     play_state |-> "Playing",
     difficulty_scalar |-> 0,
     player |-> PlayerInit,
     zombies |-> <<>>,
     bullets |-> <<>>,
     upgrades |-> UpgradeStateInit,
     upgrade_offer |-> <<RingOfFire, BigShot, PiercingRounds>>,
     spawn_budget |-> 0,
     upgrade_clock |-> 0,
     stats |-> RuntimeStatsInit]

-----------------------------------------------------------------------------
(* sim.cpp.  A simulator s is [state_, rng_, upgrade_pause_ticks_, crossed, *)
(* gone]; crossed and gone are history fields: the number of zombies whose *)
(* hit points went from > 0 to <= 0 since reset, and the bullets that the  *)
(* last update_bullets erased, as they were when erased.                   *)

\* Simulator::roll_upgrade_offer()
roll_upgrade_offer(s) ==
    LET d1 == uniform_int(s.rng_, 0, UpgradeCount - 1)
        d2 == uniform_int(d1[2], 0, UpgradeCount - 1)
        d3 == uniform_int(d2[2], 0, UpgradeCount - 1)
    IN  [s EXCEPT !.state_.upgrade_offer = <<d1[1], d2[1], d3[1]>>,
                  !.rng_ = d3[2]]

\* reset without rng_.reseed(seed): the generator goes on from where the
\* episode before left it
reset_stale_rng(s, seed) ==
    roll_upgrade_offer(
        [state_ |-> [GameStateInit EXCEPT !.seed = seed],
         rng_ |-> s.rng_,
         upgrade_pause_ticks_ |-> 0,
         crossed |-> 0,
         gone |-> <<>>])

\* reset without line 58: the count of invalid choices survives the call
reset_keeps_pause(s, seed) ==
    roll_upgrade_offer(
        [state_ |-> [GameStateInit EXCEPT !.seed = seed],
         rng_ |-> reseed(seed),
         upgrade_pause_ticks_ |-> s.upgrade_pause_ticks_,
         crossed |-> 0,
         gone |-> <<>>])

\* Simulator::reset(uint64_t seed); s is the simulator before the call
reset(s, seed) ==
    roll_upgrade_offer(
        [state_ |-> [GameStateInit EXCEPT !.seed = seed],
         rng_ |-> reseed(seed),
         upgrade_pause_ticks_ |-> 0,
         crossed |-> 0,
         gone |-> <<>>])

\* handle_upgrade_choice that applies upgrade_offer[0] whatever the choice
handle_upgrade_choice_first_card(s, action) ==
    IF s.state_.play_state # "ChoosingUpgrade" THEN s
    ELSE
        LET valid_choice == action.upgrade_choice >= 0 /\ action.upgrade_choice <= 2
            paused == IF valid_choice THEN s
                      ELSE [s EXCEPT !.upgrade_pause_ticks_ = @ + 1]
        IN  IF ~valid_choice /\ paused.upgrade_pause_ticks_ < kUpgradeChoiceTimeoutTicks
            THEN paused
            ELSE
                LET chosen == paused.state_.upgrade_offer[1]
                IN  roll_upgrade_offer(
                        [paused EXCEPT
                            !.state_.upgrades = apply_upgrade(@, chosen),
                            !.state_.play_state = "Playing",
                            !.state_.upgrade_clock = 0,
                            !.upgrade_pause_ticks_ = 0])

\* the forced pick taken one step late (<= for <)
handle_upgrade_choice_late(s, action) ==
    IF s.state_.play_state # "ChoosingUpgrade" THEN s
    ELSE
        LET valid_choice == action.upgrade_choice >= 0 /\ action.upgrade_choice <= 2
            paused == IF valid_choice THEN s
                      ELSE [s EXCEPT !.upgrade_pause_ticks_ = @ + 1]
        IN  IF ~valid_choice /\ paused.upgrade_pause_ticks_ <= kUpgradeChoiceTimeoutTicks
            THEN paused
            ELSE
                LET choice_index == IF valid_choice THEN action.upgrade_choice ELSE 0
                    chosen == paused.state_.upgrade_offer[choice_index + 1]
                IN  roll_upgrade_offer(
                        [paused EXCEPT
                            !.state_.upgrades = apply_upgrade(@, chosen),
                            !.state_.play_state = "Playing",
                            !.state_.upgrade_clock = 0,
                            !.upgrade_pause_ticks_ = 0])

\* Simulator::handle_upgrade_choice(const Action& action)
handle_upgrade_choice(s, action) ==
    IF s.state_.play_state # "ChoosingUpgrade" THEN s
    ELSE
        LET valid_choice == action.upgrade_choice >= 0 /\ action.upgrade_choice <= 2
            paused == IF valid_choice THEN s
                      ELSE [s EXCEPT !.upgrade_pause_ticks_ = @ + 1]
        IN  IF ~valid_choice /\ paused.upgrade_pause_ticks_ < kUpgradeChoiceTimeoutTicks
            THEN paused
            ELSE
                LET choice_index == IF valid_choice THEN action.upgrade_choice ELSE 0
                    chosen == paused.state_.upgrade_offer[choice_index + 1]
                IN  roll_upgrade_offer(
                        [paused EXCEPT
                            !.state_.upgrades = apply_upgrade(@, chosen),
                            !.state_.play_state = "Playing",
                            !.state_.upgrade_clock = 0,
                            !.upgrade_pause_ticks_ = 0])

-----------------------------------------------------------------------------
(* Vectors (sim.cpp, anonymous namespace) *)

\* length(Vec2 v), floor of the Euclidean norm
length(v) == ISqrt(v.x * v.x + v.y * v.y)

\* v / l, a direction in DirUnit
Unit(v, l) == Vec2(Quot(v.x * DirUnit, l), Quot(v.y * DirUnit, l))

\* dir * speed
Scaled(dir, speed) == Vec2(Quot(dir.x * speed, DirUnit), Quot(dir.y * speed, DirUnit))

\* pos + n * push; Quot is odd, so pos - n * push is Pushed(pos, n, -push)
Pushed(pos, n, push) ==
    Vec2(pos.x + Quot(n.x * push, DirUnit), pos.y + Quot(n.y * push, DirUnit))

\* line 22: the vector of length l
Normalized(v, l) == IF l <= 0 THEN Vec2(0, 0) ELSE Unit(v, l)

\* normalize(Vec2 v): a direction in DirUnit; the zero vector stays zero
\* (l <= 1e-6f is l = 0 at the model's resolution)
normalize(v) == Normalized(v, length(v))

\* clamp_position_in_bounds(Vec2& pos, float radius)
clamp_position_in_bounds(pos, radius) ==
    Vec2(Clamp(pos.x, radius, kArenaWidth - radius),
         Clamp(pos.y, radius, kArenaHeight - radius))

\* sanitize_position(Vec2& pos, Vec2 fallback, float radius): integers are
\* always finite, so the fallback branch is never taken in the model
sanitize_position(pos, fallback, radius) ==
    clamp_position_in_bounds(pos, radius)

\* sin(2*pi*k/1024) in DirUnit, by Bhaskara's rational approximation
\* sin(pi*x) ~ 16x(1-x) / (5 - 4x(1-x)), x = k/512, 0 <= k <= 512
SinTurn(k) ==
    LET m == k % 1024
        h == IF m <= 512 THEN m ELSE m - 512
        p == h * (512 - h)
        v == (16 * p * (DirUnit \div 8)) \div ((5 * 512 * 512 - 4 * p) \div 8)
    IN  IF m <= 512 THEN v ELSE -v

CosTurn(k) == SinTurn(k + 256)

RECURSIVE Xor10(_, _, _)
\* bitwise exclusive or of the low n bits of a and b
Xor10(a, b, n) ==
    IF n = 0 THEN 0
    ELSE ((a + b) % 2) + 2 * Xor10(a \div 2, b \div 2, n - 1)

\* fallback_normal_for_pair(size_t a, size_t b): only bits % 1024 is used,
\* and the low ten bits of the products depend on the low ten bits alone
fallback_normal_for_pair(a, b) ==
    LET bits == Xor10((a * 93) % 1024, (b * 159) % 1024, 10)
    IN  Vec2(CosTurn(bits), SinTurn(bits))

-----------------------------------------------------------------------------
(* collision.cpp *)

\* Simulator::init_obstacles(): {x, y, w, h} scaled by sx = 4200/1400 = 3
\* and sy = 2800/900 = 28/9
Obstacle(x, y, w, h) ==
    [x |-> x * 3 * PosScale, y |-> (y * 28 * PosScale) \div 9,
     w |-> w * 3 * PosScale, h |-> (h * 28 * PosScale) \div 9]

init_obstacles ==
    << Obstacle(220, 150, 180, 60), Obstacle(470, 260, 140, 50),
       Obstacle(640, 90, 80, 220), Obstacle(920, 170, 150, 60),
       Obstacle(1080, 330, 120, 120), Obstacle(180, 420, 200, 70),
       Obstacle(440, 520, 60, 200), Obstacle(620, 440, 200, 80),
       Obstacle(860, 560, 180, 60), Obstacle(1140, 520, 80, 200),
       Obstacle(250, 700, 220, 70), Obstacle(560, 760, 140, 60) >>

\* closest_point_on_aabb(Vec2 point, const Obstacle& box)
closest_point_on_aabb(point, box) ==
    Vec2(Clamp(point.x, box.x, box.x + box.w), Clamp(point.y, box.y, box.y + box.h))

\* point_inside_aabb(Vec2 p, const Obstacle& box)
point_inside_aabb(p, box) ==
    p.x >= box.x /\ p.x <= box.x + box.w /\ p.y >= box.y /\ p.y <= box.y + box.h

\* lines 40-44: the centre moved along (dx, dy) by the penetration
push_along(center, radius, dx, dy, dist) ==
    Vec2(center.x + Quot(dx * (radius - dist), dist),
         center.y + Quot(dy * (radius - dist), dist))

\* lines 55-63: the centre moved out through the side at distance min_push
push_out(center, radius, box, min_push) ==
    IF min_push = center.x - box.x THEN Vec2(box.x - radius, center.y)
    ELSE IF min_push = (box.x + box.w) - center.x THEN Vec2(box.x + box.w + radius, center.y)
    ELSE IF min_push = center.y - box.y THEN Vec2(center.x, box.y - radius)
    ELSE Vec2(center.x, box.y + box.h + radius)

\* lines 39-67, given dist_sq (dist_sq > kEpsilon is dist_sq > 0)
resolve_at(center, radius, box, dx, dy, dist_sq) ==
    IF dist_sq < radius * radius /\ dist_sq > 0
    THEN push_along(center, radius, dx, dy, ISqrt(dist_sq))
    ELSE IF point_inside_aabb(center, box) \/ dist_sq <= 0
    THEN push_out(center, radius, box,
                  Min(Min(center.x - box.x, (box.x + box.w) - center.x),
                      Min(center.y - box.y, (box.y + box.h) - center.y)))
    ELSE center

\* lines 34-36, given the closest point
resolve_from(center, radius, box, closest) ==
    resolve_at(center, radius, box, center.x - closest.x, center.y - closest.y,
               (center.x - closest.x) * (center.x - closest.x)
               + (center.y - closest.y) * (center.y - closest.y))

\* circle_vs_aabb_resolve(Vec2& center, float radius, const Obstacle& box):
\* the centre after the call
circle_vs_aabb_resolve(center, radius, box) ==
    resolve_from(center, radius, box, closest_point_on_aabb(center, box))

\* circle_vs_aabb_overlap(Vec2 center, float radius, const Obstacle& box)
circle_vs_aabb_overlap(center, radius, box) ==
    LET closest == closest_point_on_aabb(center, box)
        dx == center.x - closest.x
        dy == center.y - closest.y
    IN  dx * dx + dy * dy <= radius * radius

RECURSIVE ResolveObstacles(_, _, _)
\* for (const auto& obstacle : state_.obstacles) circle_vs_aabb_resolve(pos, radius, obstacle)
ResolveObstacles(pos, radius, i) ==
    IF i > Len(init_obstacles) THEN pos
    ELSE ResolveObstacles(circle_vs_aabb_resolve(pos, radius, init_obstacles[i]), radius, i + 1)

-----------------------------------------------------------------------------
(* Simulator::update_player(const Action& action), sim.cpp 100-170.        *)
(* An action is [move_x, move_y, aim_x, aim_y (DirUnit), shoot, sprint,    *)
(* reload, upgrade_choice].                                                *)

\* lines 102-104: the three timers decay by one tick
PlayerTimers(p) ==
    [p EXCEPT !.shoot_cd = Max(0, @ - kFixedDt),
              !.reload_timer = Max(0, @ - kFixedDt),
              !.invuln_timer = Max(0, @ - kFixedDt)]

\* lines 106-114 with the sprint drain not clamped at zero
PlayerStamina_unclamped(p, action, cardio) ==
    LET max_stamina == (100 + cardio * 12) * StaminaUnit
    IN  IF action.sprint /\ p.stamina > StaminaUnit
        THEN << [p EXCEPT !.max_stamina = max_stamina,
                          !.stamina = @ - (44 - cardio * 4) * kFixedDt], 7 >>
        ELSE << [p EXCEPT !.max_stamina = max_stamina,
                          !.stamina = Min(max_stamina, @ + (28 + cardio * 5) * kFixedDt)], 4 >>

\* lines 106-114: max stamina, sprint drain or regeneration;
\* <<player, sprint_mul in quarters>>
\* (22 - 2 * cardio) and (14 + 2.5 * cardio) stamina per second are
\* (44 - 4 * cardio) and (28 + 5 * cardio) stamina units per time unit
PlayerStamina(p, action, cardio) ==
    LET max_stamina == (100 + cardio * 12) * StaminaUnit
    IN  IF action.sprint /\ p.stamina > StaminaUnit
        THEN << [p EXCEPT !.max_stamina = max_stamina,
                          !.stamina = Max(0, @ - (44 - cardio * 4) * kFixedDt)], 7 >>
        ELSE << [p EXCEPT !.max_stamina = max_stamina,
                          !.stamina = Min(max_stamina, @ + (28 + cardio * 5) * kFixedDt)], 4 >>

\* lines 116-118: the movement intent, of length at most one
PlayerWish(raw, wl) == IF wl > DirUnit THEN Unit(raw, wl) ELSE raw

\* lines 120-132: acceleration, friction, integration, obstacle resolution
\* and the clamp into the arena; accel in arena units per s^2
PlayerIntegrate(p, wish, accel) ==
    LET \* 1 - friction * kFixedDt = (1200 - 15 * kFixedDt) / 1200
        keep == 2 * TimeUnit - 15 * kFixedDt
        ax == Quot(Quot(wish.x * accel, DirUnit) * PosScale * kFixedDt, TimeUnit)
        ay == Quot(Quot(wish.y * accel, DirUnit) * PosScale * kFixedDt, TimeUnit)
        vx == Quot((p.vel.x + ax) * keep, 2 * TimeUnit)
        vy == Quot((p.vel.y + ay) * keep, 2 * TimeUnit)
    IN  [p EXCEPT !.vel = Vec2(vx, vy),
                  !.pos = sanitize_position(
                              ResolveObstacles(Vec2(@.x + Quot(vx * kFixedDt, TimeUnit),
                                                    @.y + Quot(vy * kFixedDt, TimeUnit)),
                                               kPlayerRadius, 1),
                              Vec2(kPlayerSpawnX, kPlayerSpawnY), kPlayerRadius)]

\* lines 116-132: movement; accel = 930 * sprint_mul
PlayerMove(p, action, sprint_quarters) ==
    PlayerIntegrate(p,
                    PlayerWish(Vec2(action.move_x, action.move_y),
                               length(Vec2(action.move_x, action.move_y))),
                    (930 * sprint_quarters) \div 4)

\* lines 144-149 with the refill not bounded by what the magazine needs
PlayerReload_overfill(p, action, ext_mag, fast_hands) ==
    LET cap == [p EXCEPT !.mag_capacity = 12 + ext_mag * 3]
    IN  IF cap.reload_timer <= 0 /\ cap.mag < cap.mag_capacity /\ cap.reserve > 0
        THEN LET moved == Min(cap.mag_capacity, cap.reserve)
             IN  [cap EXCEPT !.mag = @ + moved, !.reserve = @ - moved]
        ELSE cap

\* lines 144-149 without line 148: the refill leaves the reserve as it is
PlayerReload_reserve_kept(p, action, ext_mag, fast_hands) ==
    LET cap == [p EXCEPT !.mag_capacity = 12 + ext_mag * 3]
    IN  IF cap.reload_timer <= 0 /\ cap.mag < cap.mag_capacity /\ cap.reserve > 0
        THEN [cap EXCEPT !.mag = @ + Min(cap.mag_capacity - cap.mag, cap.reserve)]
        ELSE cap

\* lines 134-149: magazine capacity, reload timer start, refill from reserve
PlayerReload(p, action, ext_mag, fast_hands) ==
    LET cap == [p EXCEPT !.mag_capacity = 12 + ext_mag * 3]
        \* max(0.35, 1.2 - fast_hands * 0.15) seconds
        reload_time == Max(210, 720 - fast_hands * 90)
        started == IF action.reload /\ cap.reload_timer <= 0
                      /\ cap.mag < cap.mag_capacity /\ cap.reserve > 0
                   THEN [cap EXCEPT !.reload_timer = reload_time]
                   ELSE cap
    IN  IF started.reload_timer <= 0 /\ started.mag < started.mag_capacity
           /\ started.reserve > 0
        THEN LET need == started.mag_capacity - started.mag
                 moved == Min(need, started.reserve)
             IN  [started EXCEPT !.mag = @ + moved, !.reserve = @ - moved]
        ELSE started

\* line 151: the condition under which a shot is fired
CanShoot(p, action) ==
    action.shoot /\ p.shoot_cd <= 0 /\ p.reload_timer <= 0 /\ p.mag > 0

\* line 153: the default facing direction when the aim is near zero
AimDir(n) == IF length(n) < DirUnit \div 10 THEN Vec2(DirUnit, 0) ELSE n

\* lines 155-163: the bullet fired along dir; hits and fired_pierce are
\* history fields, the number of zombie hits the bullet has registered and
\* the pierce count it was created with
BulletAlong(p, dir, big_shot, pierce) ==
    [pos |-> p.pos,
     vel |-> Scaled(dir, 760 * PosScale),
     radius |-> (4 + big_shot) * PosScale,
     damage |-> (22 + big_shot * 9) * HpUnit,
     pierce |-> pierce,
     hits |-> 0,
     dead_hits |-> 0,
     fired_pierce |-> pierce]

\* lines 152-163: the bullet of a shot
NewBullet(p, action, big_shot, pierce) ==
    BulletAlong(p, AimDir(normalize(Vec2(action.aim_x, action.aim_y))), big_shot, pierce)

\* lines 151-169: the shot, if one is fired, of the player p
PlayerShoot(s, p, action, big_shot, pierce) ==
    IF CanShoot(p, action)
    THEN [s EXCEPT
            !.state_.bullets = Append(@, NewBullet(p, action, big_shot, pierce)),
            \* shoot_cd = 0.17 + big_shot * 0.06 seconds
            !.state_.player = [p EXCEPT !.mag = @ - 1,
                                        !.shoot_cd = 102 + big_shot * 36],
            !.state_.stats.shots_fired = @ + 1]
    ELSE [s EXCEPT !.state_.player = p]

update_player(s, action) ==
    LET lv == s.state_.upgrades.levels
        st == PlayerStamina(PlayerTimers(s.state_.player), action, lv[Cardio])
    IN  PlayerShoot(s,
                    PlayerReload(PlayerMove(st[1], action, st[2]), action,
                                 lv[ExtendedMag], lv[FastHands]),
                    action, lv[BigShot], lv[PiercingRounds])

-----------------------------------------------------------------------------
(* Simulator::update_zombies(), sim.cpp 172-249.  Zombie k of the sequence  *)
(* is state_.zombies[k-1].                                                 *)

\* lines 179-180: speed = 155 + difficulty * 16, times 0.62 while slowed
ZombieSpeed(slow_timer, difficulty) ==
    LET base == Quot((155 * DiffUnit + 16 * difficulty) * PosScale, DiffUnit)
    IN  IF slow_timer > 0 THEN Quot(base * 62, 100) ELSE base

\* lines 175-176 and 181-184: the timers, the velocity and the move
ZombieMove(z, ppos, slow_timer, vel) ==
    [z EXCEPT !.slow_timer = slow_timer,
              !.touch_cd = Max(0, @ - kFixedDt),
              !.vel = vel,
              !.pos = sanitize_position(Vec2(@.x + Quot(vel.x * kFixedDt, TimeUnit),
                                             @.y + Quot(vel.y * kFixedDt, TimeUnit)),
                                        ppos, kZombieRadius)]

\* lines 175-184: one zombie's timers, chase velocity and move
ZombieChase(z, ppos, difficulty) ==
    ZombieMove(z, ppos, Max(0, z.slow_timer - kFixedDt),
               Scaled(normalize(Vec2(ppos.x - z.pos.x, ppos.y - z.pos.y)),
                      ZombieSpeed(Max(0, z.slow_timer - kFixedDt), difficulty)))

\* lines 174-185: the chase loop
ChaseAll(g) ==
    [k \in 1 .. Len(g.zombies) |->
        ZombieChase(g.zombies[k], g.player.pos, g.difficulty_scalar)] \o <<>>

\* lines 192-197 and 220-225: the unit normal along d, of length l, or the
\* fallback direction of the pair when the two coincide (l > 1e-6f is l > 0)
separation_normal(d, l, a, b) ==
    IF l > 0 THEN Unit(d, l) ELSE fallback_normal_for_pair(a, b)

\* lines 202-209: zombie i pushed back and zombie j pushed on along n, both
\* clamped
SeparatePairBy(zs, i, j, ppos, n, push) ==
    [zs EXCEPT ![i].pos = sanitize_position(Pushed(@, n, -push), ppos, kZombieRadius),
               ![j].pos = sanitize_position(Pushed(@, n, push), ppos, kZombieRadius)]

\* lines 191-209, given d and its length l; no push unless
\* l < kZombieSeparationRadius
SeparatePairAt(zs, i, j, ppos, d, l) ==
    SeparatePairBy(zs, i, j, ppos, separation_normal(d, l, i - 1, j - 1),
                   IF l < kZombieSeparationRadius
                   THEN Min((kZombieSeparationRadius - l) \div 2,
                            kMaxSeparationCorrectionPerTick)
                   ELSE 0)

\* lines 190-210: separation of the pair (i, j), i < j.  The pair is left
\* alone when its squared distance is at least the squared radius, which is
\* when the code's l >= kZombieSeparationRadius: both positions were
\* clamped by the chase loop, so lines 208-209 do not move them
SeparatePair(zs, i, j, ppos) ==
    LET d == Vec2(zs[j].pos.x - zs[i].pos.x, zs[j].pos.y - zs[i].pos.y)
    IN  IF d.x * d.x + d.y * d.y >= kZombieSeparationRadius * kZombieSeparationRadius
        THEN zs
        ELSE SeparatePairAt(zs, i, j, ppos, d, length(d))

RECURSIVE SeparateRow(_, _, _, _)
\* lines 189-211: the inner loop, zombie i against every later zombie j
SeparateRow(zs, i, j, ppos) ==
    IF j > Len(zs) THEN zs
    ELSE SeparateRow(SeparatePair(zs, i, j, ppos), i, j + 1, ppos)

RECURSIVE SeparateAll(_, _, _)
\* lines 188-212: the outer loop over i
SeparateAll(zs, i, ppos) ==
    IF i > Len(zs) THEN zs
    ELSE SeparateAll(SeparateRow(zs, i, i + 1, ppos), i + 1, ppos)

\* lines 227-236: zombie i pushed away from the player and the player
\* pushed back along n; w is <<zombies, player position>>.  Line 235 clamps
\* the zombie with the moved, not yet clamped, player position as fallback
PushFromPlayerBy(w, i, n, penetration) ==
    LET \* min(0.9 * penetration, kMax...) and min(0.1 * penetration, 1.2)
        z_push == Min((9 * penetration) \div 10, kMaxSeparationCorrectionPerTick)
        p_push == Min(penetration \div 10, (12 * PosScale) \div 10)
    IN  << [w[1] EXCEPT ![i].pos = sanitize_position(Pushed(@, n, z_push),
                                                     Pushed(w[2], n, -p_push),
                                                     kZombieRadius)],
           sanitize_position(Pushed(w[2], n, -p_push),
                             Vec2(kPlayerSpawnX, kPlayerSpawnY), kPlayerRadius) >>

\* lines 218-237, given d and its length l
PushFromPlayerAt(w, i, d, l) ==
    IF l < kPlayerRadius + kZombieRadius
    THEN PushFromPlayerBy(w, i, separation_normal(d, l, i - 1, Len(w[1]) + 1),
                          kPlayerRadius + kZombieRadius - l)
    ELSE w

\* lines 215-238: zombie i against the player
PushFromPlayer(w, i) ==
    LET d == Vec2(w[1][i].pos.x - w[2].x, w[1][i].pos.y - w[2].y)
    IN  PushFromPlayerAt(w, i, d, length(d))

RECURSIVE PushAllFromPlayer(_, _)
\* lines 214-239: every zombie in order against the player
PushAllFromPlayer(w, i) ==
    IF i > Len(w[1]) THEN w
    ELSE PushAllFromPlayer(PushFromPlayer(w, i), i + 1)

\* lines 187-240: one of the two separation iterations on
\* w = <<zombies, player position>>
SeparationPass(w) ==
    PushAllFromPlayer(<<SeparateAll(w[1], 1, w[2]), w[2]>>, 1)

\* lines 242-247: one zombie against every obstacle, then clamped
ZombieObstacles(z, ppos) ==
    [z EXCEPT !.pos = sanitize_position(ResolveObstacles(@, kZombieRadius, 1),
                                        ppos, kZombieRadius)]

\* lines 242-248: the zombies against the obstacles and the last clamp of
\* the player
ZombiesVsObstacles(s, w) ==
    [s EXCEPT !.state_.zombies =
                  [k \in 1 .. Len(w[1]) |-> ZombieObstacles(w[1][k], w[2])] \o <<>>,
              !.state_.player.pos =
                  sanitize_position(w[2], Vec2(kPlayerSpawnX, kPlayerSpawnY),
                                    kPlayerRadius)]

update_zombies(s) ==
    ZombiesVsObstacles(s,
        SeparationPass(SeparationPass(<<ChaseAll(s.state_), s.state_.player.pos>>)))

-----------------------------------------------------------------------------
(* Simulator::update_bullets(), sim.cpp 251-295.  The loops carry           *)
(* w = [b, zs, stats, crossed]: the bullet, the zombies, the RuntimeStats  *)
(* and the history count of zombies whose hit points crossed to <= 0.      *)

kRemovedPos == Vec2(-1000 * PosScale, -1000 * PosScale)

\* line 259: does the bullet overlap any obstacle
HitsObstacle(b) ==
    \E i \in 1 .. Len(init_obstacles) : circle_vs_aabb_overlap(b.pos, b.radius, init_obstacles[i])

\* line 270: length(d) <= 10 + b.radius
BulletTouches(b, z) ==
    LET dx == z.pos.x - b.pos.x
        dy == z.pos.y - b.pos.y
        reach == 10 * PosScale + b.radius
    IN  dx * dx + dy * dy <= reach * reach

\* lines 271-280 without line 275: a hit costs the bullet no pierce
BulletHit_free(w, k, frost) ==
    LET z == w.zs[k]
        damage_applied == Min(z.hp, w.b.damage)
        hp == z.hp - w.b.damage
        slow == IF frost > 0 THEN Max(z.slow_timer, 240 + 180 * frost) ELSE z.slow_timer
    IN  [b |-> [w.b EXCEPT !.hits = @ + 1,
                           !.dead_hits = @ + (IF z.hp <= 0 THEN 1 ELSE 0)],
         zs |-> [w.zs EXCEPT ![k].hp = hp, ![k].slow_timer = slow],
         stats |-> [w.stats EXCEPT !.damage_dealt = @ + Max(0, damage_applied),
                                   !.shots_hit = @ + 1],
         crossed |-> w.crossed + (IF z.hp > 0 /\ hp <= 0 THEN 1 ELSE 0)]

\* lines 271-280: the bullet registers a hit on zombie k
BulletHit(w, k, frost) ==
    LET z == w.zs[k]
        damage_applied == Min(z.hp, w.b.damage)
        hp == z.hp - w.b.damage
        slow == IF frost > 0 THEN Max(z.slow_timer, 240 + 180 * frost) ELSE z.slow_timer
        pierce == w.b.pierce - 1
    IN  [b |-> [w.b EXCEPT !.pierce = pierce,
                           !.hits = @ + 1,
                           !.dead_hits = @ + (IF z.hp <= 0 THEN 1 ELSE 0),
                           !.pos = IF pierce < 0 THEN kRemovedPos ELSE @],
         zs |-> [w.zs EXCEPT ![k].hp = hp, ![k].slow_timer = slow],
         stats |-> [w.stats EXCEPT !.damage_dealt = @ + Max(0, damage_applied),
                                   !.shots_hit = @ + 1],
         crossed |-> w.crossed + (IF z.hp > 0 /\ hp <= 0 THEN 1 ELSE 0)]

RECURSIVE BulletVsZombies(_, _, _)
\* lines 268-282: the zombies in order, until the pierce count is used up
BulletVsZombies(w, k, frost) ==
    IF k > Len(w.zs) THEN w
    ELSE IF BulletTouches(w.b, w.zs[k])
    THEN LET h == BulletHit(w, k, frost)
         IN  IF h.b.pierce < 0 THEN h ELSE BulletVsZombies(h, k + 1, frost)
    ELSE BulletVsZombies(w, k + 1, frost)

\* lines 255-282: one bullet's move, obstacle test and zombie hits
BulletStep(b, zs, stats, crossed, frost) ==
    LET moved == [b EXCEPT !.pos = Vec2(b.pos.x + Quot(b.vel.x * kFixedDt, TimeUnit),
                                        b.pos.y + Quot(b.vel.y * kFixedDt, TimeUnit))]
        w == [b |-> moved, zs |-> zs, stats |-> stats, crossed |-> crossed]
    IN  IF HitsObstacle(moved)
        THEN [w EXCEPT !.b.pos = kRemovedPos]
        ELSE BulletVsZombies(w, 1, frost)

\* bullet i replaced by the bullet of w, with w's zombies, stats and count
BulletStored(bs, i, w) == <<[bs EXCEPT ![i] = w.b], w.zs, w.stats, w.crossed>>

RECURSIVE BulletsLoop(_, _, _)
\* lines 254-283: every bullet in order; r is <<bullets, zombies, stats, crossed>>
BulletsLoop(r, i, frost) ==
    IF i > Len(r[1]) THEN r
    ELSE BulletsLoop(BulletStored(r[1], i, BulletStep(r[1][i], r[2], r[3], r[4], frost)),
                     i + 1, frost)

\* lines 286-288: the remove_if predicate of the bullets
BulletGone(b) ==
    b.pos.x < 0 \/ b.pos.y < 0 \/ b.pos.x > kArenaWidth \/ b.pos.y > kArenaHeight

BulletLive(b) == ~BulletGone(b)

ZombieAlive(z) == z.hp > 0

\* lines 285-294 with line 294 as an assignment: kills is the count of the call
EraseGone_tick_kills(s, r) ==
    [s EXCEPT !.state_.bullets = SelectSeq(r[1], BulletLive),
              !.state_.zombies = SelectSeq(r[2], ZombieAlive),
              !.state_.stats =
                  [r[3] EXCEPT !.kills = Len(r[2]) - Len(SelectSeq(r[2], ZombieAlive))],
              !.crossed = r[4],
              !.gone = SelectSeq(r[1], BulletGone)]

\* lines 285-294: bullets and zombies erased, the erased zombies counted
EraseGone(s, r) ==
    [s EXCEPT !.state_.bullets = SelectSeq(r[1], BulletLive),
              !.state_.zombies = SelectSeq(r[2], ZombieAlive),
              !.state_.stats =
                  [r[3] EXCEPT !.kills = @ + (Len(r[2]) - Len(SelectSeq(r[2], ZombieAlive)))],
              !.crossed = r[4],
              !.gone = SelectSeq(r[1], BulletGone)]

update_bullets(s) ==
    EraseGone(s, BulletsLoop(<<s.state_.bullets, s.state_.zombies, s.state_.stats, s.crossed>>,
                             1, s.state_.upgrades.levels[FrostRounds]))

\* Simulator::apply_ring_of_fire(), sim.cpp 297-306
apply_ring_of_fire(s) ==
    LET g == s.state_
        level == g.upgrades.levels[RingOfFire]
        radius == (70 + level * 16) * PosScale
        \* dps * kFixedDt, dps = 18 + level * 7 hit points per second
        burn == (18 + level * 7) * kFixedDt * (HpUnit \div TimeUnit)
        InRing(z) == length(Vec2(z.pos.x - g.player.pos.x, z.pos.y - g.player.pos.y)) < radius
        Burn(z) == IF InRing(z) THEN [z EXCEPT !.hp = @ - burn] ELSE z
        zs == [k \in 1 .. Len(g.zombies) |-> Burn(g.zombies[k])] \o <<>>
        newly == Cardinality({k \in 1 .. Len(g.zombies) : g.zombies[k].hp > 0 /\ zs[k].hp <= 0})
    IN  IF level <= 0 THEN s
        ELSE [s EXCEPT !.state_.zombies = zs, !.crossed = @ + newly]

-----------------------------------------------------------------------------
(* Simulator::step, the gameplay part after apply_ring_of_fire             *)

RECURSIVE ContactLoop(_, _, _, _)
\* lines 367-374: contact damage, zombie by zombie; <<zombies, health, damage_taken>>
ContactLoop(zs, k, p, damage_taken) ==
    IF k > Len(zs) THEN <<zs, p.health, damage_taken>>
    ELSE LET z == zs[k]
             d == Vec2(z.pos.x - p.pos.x, z.pos.y - p.pos.y)
         IN  IF length(d) < kPlayerRadius + kZombieRadius /\ z.touch_cd <= 0
                /\ p.invuln_timer <= 0
             THEN ContactLoop([zs EXCEPT ![k].touch_cd = (3 * TimeUnit) \div 2], k + 1,
                              [p EXCEPT !.health = @ - 10], damage_taken + 10)
             ELSE ContactLoop(zs, k + 1, p, damage_taken)

\* the zombies, the health and damage_taken of r stored
ContactStored(s, r) ==
    [s EXCEPT !.state_.zombies = r[1],
              !.state_.player.health = r[2],
              !.state_.stats.damage_taken = r[3]]

contact_damage(s) ==
    ContactStored(s, ContactLoop(s.state_.zombies, 1, s.state_.player,
                                 s.state_.stats.damage_taken))

\* death_check that revives whenever Second Wind is owned, used or not
death_check_again(s) ==
    LET g == s.state_
        health == Max(0, g.player.health)
        revive == health <= 0 /\ g.upgrades.levels[SecondWind] > 0
        after == IF revive THEN (g.player.max_health * 6) \div 10 ELSE health
    IN  [s EXCEPT !.state_.player.health = after,
                  !.state_.player.invuln_timer = IF revive THEN 2 * TimeUnit ELSE @,
                  !.state_.upgrades.second_wind_used = IF revive THEN TRUE ELSE @,
                  !.state_.play_state = IF after <= 0 THEN "Dead" ELSE @]

\* lines 376-387: clamp of the health, Second Wind revival, death
death_check(s) ==
    LET g == s.state_
        health == Max(0, g.player.health)
        revive == health <= 0 /\ g.upgrades.levels[SecondWind] > 0
                  /\ ~g.upgrades.second_wind_used
        after == IF revive THEN (g.player.max_health * 6) \div 10 ELSE health
    IN  [s EXCEPT !.state_.player.health = after,
                  !.state_.player.invuln_timer = IF revive THEN 2 * TimeUnit ELSE @,
                  !.state_.upgrades.second_wind_used = IF revive THEN TRUE ELSE @,
                  !.state_.play_state = IF after <= 0 THEN "Dead" ELSE @]

\* spawn_zombie that puts the zombie a body radius outside the chosen edge
spawn_zombie_outside(s) ==
    LET e == uniform_int(s.rng_, 0, 3)
        edge == e[1]
        u == IF edge <= 1 THEN uniform(e[2], 0, 2800) ELSE uniform(e[2], 0, 4200)
        pos == CASE edge = 0 -> Vec2(-kZombieRadius, u[1])
                 [] edge = 1 -> Vec2(kArenaWidth + kZombieRadius, u[1])
                 [] edge = 2 -> Vec2(u[1], -kZombieRadius)
                 [] edge = 3 -> Vec2(u[1], kArenaHeight + kZombieRadius)
        z == [pos |-> pos, vel |-> Vec2(0, 0),
              hp |-> 26 * HpUnit + Quot(s.state_.difficulty_scalar * 3, DiffUnit \div HpUnit),
              slow_timer |-> 0, touch_cd |-> 0]
    IN  [s EXCEPT !.state_.zombies = Append(@, z), !.rng_ = u[2]]

\* Simulator::spawn_zombie(), sim.cpp 89-98
spawn_zombie(s) ==
    LET e == uniform_int(s.rng_, 0, 3)
        edge == e[1]
        u == IF edge <= 1 THEN uniform(e[2], 0, 2800) ELSE uniform(e[2], 0, 4200)
        pos == CASE edge = 0 -> Vec2(0, u[1])
                 [] edge = 1 -> Vec2(kArenaWidth, u[1])
                 [] edge = 2 -> Vec2(u[1], 0)
                 [] edge = 3 -> Vec2(u[1], kArenaHeight)
        z == [pos |-> pos, vel |-> Vec2(0, 0),
              \* 26 + difficulty * 3
              hp |-> 26 * HpUnit + Quot(s.state_.difficulty_scalar * 3, DiffUnit \div HpUnit),
              slow_timer |-> 0, touch_cd |-> 0]
    IN  [s EXCEPT !.state_.zombies = Append(@, z), !.rng_ = u[2]]

RECURSIVE SpawnLoop_uncapped(_, _)
\* lines 393-396 without the test of zombies.size() against max_alive
SpawnLoop_uncapped(s, max_alive) ==
    IF s.state_.spawn_budget > BudgetUnit
    THEN SpawnLoop_uncapped(spawn_zombie([s EXCEPT !.state_.spawn_budget = @ - BudgetUnit]),
                            max_alive)
    ELSE s

RECURSIVE SpawnLoop(_, _)
\* lines 393-396: while (spawn_budget > 1.0f && zombies.size() < max_alive)
SpawnLoop(s, max_alive) ==
    IF s.state_.spawn_budget > BudgetUnit /\ Len(s.state_.zombies) < max_alive
    THEN SpawnLoop(spawn_zombie([s EXCEPT !.state_.spawn_budget = @ - BudgetUnit]), max_alive)
    ELSE s

\* lines 389-396: difficulty, spawn budget and spawning
difficulty_and_spawn(s) ==
    LET \* difficulty_scalar = episode_time_s / 90
        difficulty == s.state_.episode_time_s
        \* spawn_rate * kFixedDt, spawn_rate = 1 + difficulty * 1.2
        income == (45000 + difficulty) * kFixedDt
        \* 16 + int(difficulty * 18)
        max_alive == 16 + (18 * difficulty) \div DiffUnit
    IN  SpawnLoop([s EXCEPT !.state_.difficulty_scalar = difficulty,
                            !.state_.spawn_budget = @ + income], max_alive)

\* lines 398-404: upgrade clock, the pause for the offer, time and tick
clock_and_tick(s) ==
    LET clock == s.state_.upgrade_clock + kFixedDt
    IN  [s EXCEPT !.state_.upgrade_clock = clock,
                  !.state_.play_state = IF clock >= 20 * TimeUnit THEN "ChoosingUpgrade" ELSE @,
                  !.state_.episode_time_s = @ + kFixedDt,
                  !.state_.tick = @ + 1]

\* lines 361-404: the updates of one gameplay tick, in the order of the code
gameplay(s, action) ==
    clock_and_tick(
        difficulty_and_spawn(
            death_check(
                contact_damage(
                    apply_ring_of_fire(
                        update_bullets(
                            update_zombies(
                                update_player(s, action))))))))

-----------------------------------------------------------------------------
(* Simulator::compute_reward, sim.cpp 329-354, in units of 1/100000 *)

RECURSIVE NearestFrom(_, _, _, _)
\* lines 342-349: min over the zombies of the distance to the player
NearestFrom(zs, k, ppos, best) ==
    IF k > Len(zs) THEN best
    ELSE NearestFrom(zs, k + 1, ppos,
            Min(best, length(Vec2(zs[k].pos.x - ppos.x, zs[k].pos.y - ppos.y))))

nearest_zombie(g) == NearestFrom(g.zombies, 1, g.player.pos, 9999 * PosScale)

\* compute_reward that rewards the kills and hits of the whole episode, not
\* those since the snapshot
compute_reward_totals(g, prev) ==
    LET damage_taken_delta == g.stats.damage_taken - prev.damage_taken
        shots_delta == g.stats.shots_fired - prev.shots_fired
        hits_delta == g.stats.shots_hit - prev.shots_hit
        damage_dealt_delta == g.stats.damage_dealt - prev.damage_dealt
        nearest == nearest_zombie(g)
    IN  2000
        + g.stats.kills * 145000
        + g.stats.shots_hit * 3000
        + Quot(damage_dealt_delta * 200, HpUnit)
        - damage_taken_delta * 5000
        - (IF nearest < 120 * PosScale
           THEN Quot((120 * PosScale - nearest) * 80, PosScale) ELSE 0)
        - (IF shots_delta > 0 /\ hits_delta = 0 THEN 800 * shots_delta ELSE 0)

\* lines 329-354; rewards are in units of 1/100000
compute_reward(g, prev) ==
    LET kills_delta == g.stats.kills - prev.kills
        damage_taken_delta == g.stats.damage_taken - prev.damage_taken
        shots_delta == g.stats.shots_fired - prev.shots_fired
        hits_delta == g.stats.shots_hit - prev.shots_hit
        damage_dealt_delta == g.stats.damage_dealt - prev.damage_dealt
        nearest == nearest_zombie(g)
    IN  2000
        + kills_delta * 145000
        + hits_delta * 3000
        \* damage_dealt_delta * 0.002, damage in HpUnit
        + Quot(damage_dealt_delta * 200, HpUnit)
        - damage_taken_delta * 5000
        \* (120 - nearest) * 0.0008
        - (IF nearest < 120 * PosScale
           THEN Quot((120 * PosScale - nearest) * 80, PosScale) ELSE 0)
        - (IF shots_delta > 0 /\ hits_delta = 0 THEN 800 * shots_delta ELSE 0)

-----------------------------------------------------------------------------
(* build_observation, observation.cpp 70-144.  Features are in units of    *)
(* 1/10000 (ObsUnit); the three timers are in time units.                  *)
(* Hit distances of the rays are lengths in sub-units, -1 for no hit.      *)

ObsUnit == 100 * 100

\* lines 87-94 without the std::sort of line 94: the zombies in list order
InsertByDist_unsorted(sorted, e, i) == Append(sorted, e)

\* lines 87-94: the zombies with their squared distances, sorted ascending
RECURSIVE InsertByDist(_, _, _)
InsertByDist(sorted, e, i) ==
    IF i > Len(sorted) THEN Append(sorted, e)
    ELSE IF e[1] < sorted[i][1]
    THEN SubSeq(sorted, 1, i - 1) \o <<e>> \o SubSeq(sorted, i, Len(sorted))
    ELSE InsertByDist(sorted, e, i + 1)

RECURSIVE SortByDist(_, _, _, _)
SortByDist(zs, k, ppos, acc) ==
    IF k > Len(zs) THEN acc
    ELSE LET dx == zs[k].pos.x - ppos.x
             dy == zs[k].pos.y - ppos.y
         IN  SortByDist(zs, k + 1, ppos, InsertByDist(acc, <<dx * dx + dy * dy, k>>, 1))

\* lines 75-85
ObsPlayer(p) ==
    << Quot(p.pos.x * ObsUnit, kArenaWidth),
       Quot(p.pos.y * ObsUnit, kArenaHeight),
       Quot(p.vel.x * ObsUnit, 400 * PosScale),
       Quot(p.vel.y * ObsUnit, 400 * PosScale),
       Quot(p.health * ObsUnit, Max(1, p.max_health)),
       Quot(p.stamina * 1000, Max(1, p.max_stamina \div 10)),
       Quot(p.mag * ObsUnit, Max(1, p.mag_capacity)),
       Quot(p.reserve * ObsUnit, 300),
       p.shoot_cd,
       p.reload_timer,
       p.invuln_timer >>

\* lines 96-108 without the padding of the empty slots
ObsZombieBlock_unpadded(g, nearest, i) ==
    IF i < Len(nearest)
    THEN LET z == g.zombies[nearest[i + 1][2]]
             p == g.player
             rel == Vec2(z.pos.x - p.pos.x, z.pos.y - p.pos.y)
         IN  << Quot(rel.x * ObsUnit, kArenaWidth),
                Quot(rel.y * ObsUnit, kArenaHeight),
                Quot(length(rel) * ObsUnit, 500 * PosScale),
                Quot((z.vel.x - p.vel.x) * ObsUnit, 400 * PosScale),
                Quot((z.vel.y - p.vel.y) * ObsUnit, 400 * PosScale) >>
    ELSE <<>>

\* lines 96-108: the block of slot i (0-based)
ObsZombieBlock(g, nearest, i) ==
    IF i < Len(nearest)
    THEN LET z == g.zombies[nearest[i + 1][2]]
             p == g.player
             rel == Vec2(z.pos.x - p.pos.x, z.pos.y - p.pos.y)
         IN  << Quot(rel.x * ObsUnit, kArenaWidth),
                Quot(rel.y * ObsUnit, kArenaHeight),
                Quot(length(rel) * ObsUnit, 500 * PosScale),
                Quot((z.vel.x - p.vel.x) * ObsUnit, 400 * PosScale),
                Quot((z.vel.y - p.vel.y) * ObsUnit, 400 * PosScale) >>
    ELSE <<0, 0, ObsUnit, 0, 0>>

RECURSIVE ObsZombies(_, _, _)
ObsZombies(g, nearest, i) ==
    IF i >= kZombieObsCount THEN <<>>
    ELSE ObsZombieBlock(g, nearest, i) \o ObsZombies(g, nearest, i + 1)

\* line 111-112: the direction of ray i, theta = i / kRayCount of a turn
RayDir(i) == Vec2(CosTurn((1024 \div kRayCount) * i), SinTurn((1024 \div kRayCount) * i))

\* the directions of the kRayCount rays
RayDirs == [i \in 0 .. (kRayCount - 1) |-> RayDir(i)]

\* a length divided by a direction component d # 0
RayDiv(len, d) == Quot(len * DirUnit, d)

\* boundary_hit_t(Vec2 origin, Vec2 dir), lines 59-66
boundary_hit_t(origin, dir) ==
    Clamp(Min(Min(IF dir.x > 0 THEN RayDiv(kArenaWidth - origin.x, dir.x) ELSE kRayRange,
                  IF dir.x < 0 THEN RayDiv(0 - origin.x, dir.x) ELSE kRayRange),
              Min(IF dir.y > 0 THEN RayDiv(kArenaHeight - origin.y, dir.y) ELSE kRayRange,
                  IF dir.y < 0 THEN RayDiv(0 - origin.y, dir.y) ELSE kRayRange)),
          0, kRayRange)

\* lines 26-29 and 35-38: the entry and the exit of the slab [lo, hi]
SlabNear(lo, hi, org, d) == Min(RayDiv(lo - org, d), RayDiv(hi - org, d))
SlabFar(lo, hi, org, d) == Max(RayDiv(lo - org, d), RayDiv(hi - org, d))

\* lines 41-42
RayHit(tmin, tmax) == IF tmax < 0 \/ tmin > tmax THEN -1 ELSE tmin

\* ray_aabb_t(Vec2 origin, Vec2 dir, const Obstacle& o), lines 17-43;
\* abs(dir.x) < eps is dir.x = 0 at the model's resolution
ray_aabb_t(origin, dir, o) ==
    IF dir.x = 0 /\ (origin.x < o.x \/ origin.x > o.x + o.w) THEN -1
    ELSE IF dir.y = 0 /\ (origin.y < o.y \/ origin.y > o.y + o.h) THEN -1
    ELSE RayHit(Max(Max(0, IF dir.x = 0 THEN 0 ELSE SlabNear(o.x, o.x + o.w, origin.x, dir.x)),
                    IF dir.y = 0 THEN 0 ELSE SlabNear(o.y, o.y + o.h, origin.y, dir.y)),
                Min(Min(kRayRange,
                        IF dir.x = 0 THEN kRayRange
                        ELSE SlabFar(o.x, o.x + o.w, origin.x, dir.x)),
                    IF dir.y = 0 THEN kRayRange
                    ELSE SlabFar(o.y, o.y + o.h, origin.y, dir.y)))

\* lines 51-56, given b / 2 and the root of disc / 4
RayRoots(half_b, root) ==
    IF 0 - half_b - root >= 0 THEN 0 - half_b - root
    ELSE IF 0 - half_b + root >= 0 THEN 0 - half_b + root
    ELSE -1

\* lines 47-50, given b / 2 and c
RayDisc(half_b, c) ==
    IF half_b * half_b - c < 0 THEN -1 ELSE RayRoots(half_b, ISqrt(half_b * half_b - c))

\* ray_circle_t(Vec2 origin, Vec2 dir, Vec2 center, float radius), lines 45-57
ray_circle_t(origin, dir, center, radius) ==
    RayDisc(Quot((origin.x - center.x) * dir.x + (origin.y - center.y) * dir.y, DirUnit),
            (origin.x - center.x) * (origin.x - center.x)
            + (origin.y - center.y) * (origin.y - center.y) - radius * radius)

\* lines 117 and 123: if (t >= 0.0f) best = std::min(best, t)
RayCloser(best, t) == IF t >= 0 THEN Min(best, t) ELSE best

RECURSIVE RayObstacles(_, _, _, _)
\* lines 114-118
RayObstacles(origin, dir, i, best) ==
    IF i > Len(init_obstacles) THEN best
    ELSE RayObstacles(origin, dir, i + 1,
                      RayCloser(best, ray_aabb_t(origin, dir, init_obstacles[i])))

RECURSIVE RayZombies(_, _, _, _, _)
\* lines 120-124
RayZombies(zs, origin, dir, k, best) ==
    IF k > Len(zs) THEN best
    ELSE RayZombies(zs, origin, dir, k + 1,
                    RayCloser(best, ray_circle_t(origin, dir, zs[k].pos, kZombieRadius)))

\* lines 126-127
RayFeature(t) == Clamp(Quot(t * ObsUnit, kRayRange), 0, ObsUnit)

\* lines 111-127: the two features of the ray along dir
ObsRay(g, dir) ==
    << RayFeature(RayObstacles(g.player.pos, dir, 1, boundary_hit_t(g.player.pos, dir))),
       RayFeature(RayZombies(g.zombies, g.player.pos, dir, 1, kRayRange)) >>

RECURSIVE ObsRays(_, _)
\* lines 110-128
ObsRays(g, i) ==
    IF i >= kRayCount THEN <<>>
    ELSE ObsRay(g, RayDirs[i]) \o ObsRays(g, i + 1)

\* lines 130-141
ObsTail(g) ==
    << Quot(g.difficulty_scalar * ObsUnit, DiffUnit),
       IF g.play_state = "ChoosingUpgrade" THEN ObsUnit ELSE 0,
       ((2 * g.upgrade_offer[1] + 1) * ObsUnit) \div (2 * UpgradeCount),
       ((2 * g.upgrade_offer[2] + 1) * ObsUnit) \div (2 * UpgradeCount),
       ((2 * g.upgrade_offer[3] + 1) * ObsUnit) \div (2 * UpgradeCount) >>
    \o [k \in 1 .. UpgradeCount |-> (g.upgrades.levels[k - 1] * ObsUnit) \div 5]

build_observation(g) ==
    ObsPlayer(g.player)
    \o ObsZombies(g, SortByDist(g.zombies, 1, g.player.pos, <<>>), 0)
    \o ObsRays(g, 0)
    \o ObsTail(g)

-----------------------------------------------------------------------------
(* Simulator::step, sim.cpp 356-442 *)

\* lines 420-441: the StepResult built from the state after the step
StepResult(g, prev_stats) ==
    [observation |-> build_observation(g),
     reward |-> compute_reward(g, prev_stats),
     terminated |-> g.play_state = "Dead",
     truncated |-> g.episode_time_s >= kEpisodeLimitSeconds,
     info |-> [kills |-> g.stats.kills,
               damage_taken |-> g.stats.damage_taken,
               shots_fired |-> g.stats.shots_fired,
               hits |-> g.stats.shots_hit,
               damage_dealt |-> g.stats.damage_dealt]]

\* lines 361-405 run whatever the play state is unless an offer is open, so
\* that a dead player's world keeps running
play_tick_dead_plays(chosen, action) ==
    IF chosen.state_.play_state # "ChoosingUpgrade" THEN gameplay(chosen, action)
    ELSE chosen

\* lines 361-405 run while an upgrade offer is open too, so that the world
\* is not paused
play_tick_while_choosing(chosen, action) ==
    IF chosen.state_.play_state # "Dead" THEN gameplay(chosen, action) ELSE chosen

\* lines 361-405: the gameplay tick, run only in play state Playing
play_tick(chosen, action) ==
    IF chosen.state_.play_state = "Playing" THEN gameplay(chosen, action) ELSE chosen

\* the simulator after step(action)
step_sim(s, action) == play_tick(handle_upgrade_choice(s, action), action)

\* the value step(action) returns, given the simulator before and after
step_out(s, after) == StepResult(after.state_, s.state_.stats)

\* what reset(seed) returns
reset_out(s) ==
    [observation |-> build_observation(s.state_),
     reward |-> 0, terminated |-> FALSE, truncated |-> FALSE,
     info |-> [kills |-> 0, damage_taken |-> 0, shots_fired |-> 0, hits |-> 0,
               damage_dealt |-> 0]]

\* Simulator::Simulator(): reset(0) on the default-initialised members
NewSimulator ==
    reset([state_ |-> GameStateInit, rng_ |-> reseed(0), upgrade_pause_ticks_ |-> 0,
           crossed |-> 0, gone |-> <<>>], 0)

-----------------------------------------------------------------------------
(* The driver (main.cpp 479-499, python_bindings.cpp 24-52): it calls      *)
(* reset and step.  It holds one of three inputs and reconsiders it every  *)
(* HoldTicks ticks; while an upgrade offer is open it adds a choice.       *)

Seeds == 0 .. (NumSeeds - 1)

Inputs == {"Idle", "Engage", "Run"}

\* -1 and 3 are invalid, 0 .. 2 select a card
Choices == -1 .. 3

NoInput ==
    [move_x |-> 0, move_y |-> 0, aim_x |-> DirUnit, aim_y |-> 0,
     shoot |-> FALSE, sprint |-> FALSE, reload |-> FALSE, upgrade_choice |-> -1]

\* the nearest zombie's direction from the player, or the default aim
AimAtNearest(g) ==
    LET near == SortByDist(g.zombies, 1, g.player.pos, <<>>)
    IN  IF Len(near) = 0 THEN Vec2(DirUnit, 0)
        ELSE LET z == g.zombies[near[1][2]]
             IN  normalize(Vec2(z.pos.x - g.player.pos.x, z.pos.y - g.player.pos.y))

\* the trigger held with the aim along aim
ShootAlong(aim) == [NoInput EXCEPT !.aim_x = aim.x, !.aim_y = aim.y, !.shoot = TRUE]

\* stand and shoot at the nearest zombie
Engage(g) == ShootAlong(AimAtNearest(g))

\* sprint to the right
Run == [NoInput EXCEPT !.move_x = DirUnit, !.sprint = TRUE]

InputAction(mode, g, choice) ==
    LET a == CASE mode = "Idle" -> NoInput
               [] mode = "Engage" -> Engage(g)
               [] mode = "Run" -> Run
    IN  [a EXCEPT !.upgrade_choice = choice]

Init ==
    /\ sim = NewSimulator
    /\ out = reset_out(NewSimulator)
    /\ twin = NewSimulator
    /\ twinOut = reset_out(NewSimulator)
    /\ hist = [op |-> "new", mode |-> "Idle", action |-> NoInput, before |-> NewSimulator]

\* reset(seed), called on a new simulator or when play is over or paused
Reset ==
    /\ hist.op = "new" \/ sim.state_.play_state # "Playing"
    /\ \E seed \in Seeds :
        LET after == reset(sim, seed)
        IN  /\ sim' = after
            /\ out' = reset_out(after)
            /\ hist' = [op |-> "reset", mode |-> "Idle", action |-> NoInput, before |-> sim]
            /\ UNCHANGED <<twin, twinOut>>

\* step(action) on the simulator under test
StepWith(mode, choice) ==
    \E action \in {InputAction(mode, sim.state_, choice)} :
        \E after \in {step_sim(sim, action)} :
            /\ sim' = after
            /\ out' = step_out(sim, after)
            /\ hist' = [op |-> "step", mode |-> mode, action |-> action, before |-> sim]
            /\ UNCHANGED <<twin, twinOut>>

\* a step while playing: the input is reconsidered every HoldTicks ticks
StepPlay ==
    /\ sim.state_.play_state = "Playing"
    /\ sim.state_.tick < MaxTick
    /\ \E mode \in Inputs :
        /\ sim.state_.tick % HoldTicks = 0 \/ mode = hist.mode
        /\ StepWith(mode, -1)

\* a step while the offer is open: any choice, valid or not
StepChoose ==
    /\ sim.state_.play_state = "ChoosingUpgrade"
    /\ \E choice \in Choices : StepWith(hist.mode, choice)

\* a step after the player's death: any input, any choice
StepDead ==
    /\ sim.state_.play_state = "Dead"
    /\ \E mode \in Inputs, choice \in Choices : StepWith(mode, choice)

Next == Reset \/ StepPlay \/ StepChoose \/ StepDead

Spec == Init /\ [][Next]_vars

-----------------------------------------------------------------------------
(* Two independent runs.  The first simulator is used for DriftTicks steps *)
(* of an earlier episode, the second is new; both are then reset with the  *)
(* same seed and stepped with the same actions.  hist.before keeps the     *)
(* first simulator as it was when reset was called.                        *)

\* the earlier episode of the first simulator
TwinDrift ==
    /\ hist.op \in {"new", "drift"}
    /\ sim.state_.tick < DriftTicks
    /\ \E mode \in Inputs :
        /\ hist.op = "new" \/ mode = hist.mode
        /\ \E action \in {InputAction(mode, sim.state_, -1)} :
            \E after \in {step_sim(sim, action)} :
                /\ sim' = after
                /\ out' = step_out(sim, after)
                /\ hist' = [hist EXCEPT !.op = "drift", !.mode = mode, !.action = action]
                /\ UNCHANGED <<twin, twinOut>>

\* reset(seed) on both simulators
TwinReset ==
    /\ hist.op = "drift"
    /\ sim.state_.tick = DriftTicks
    /\ \E seed \in Seeds :
        LET a == reset(sim, seed)
            b == reset(twin, seed)
        IN  /\ sim' = a
            /\ out' = reset_out(a)
            /\ twin' = b
            /\ twinOut' = reset_out(b)
            /\ hist' = [op |-> "reset", mode |-> "Idle", action |-> NoInput, before |-> sim]

\* step(action) on both simulators, with the same action
TwinStep ==
    /\ hist.op \in {"reset", "both"}
    /\ sim.state_.tick < TwinTicks
    /\ \E mode \in Inputs :
        /\ hist.op = "reset" \/ mode = hist.mode
        /\ \E action \in {InputAction(mode, sim.state_, -1)} :
            \E a \in {step_sim(sim, action)}, b \in {step_sim(twin, action)} :
                /\ sim' = a
                /\ out' = step_out(sim, a)
                /\ twin' = b
                /\ twinOut' = step_out(twin, b)
                /\ hist' = [hist EXCEPT !.op = "both", !.mode = mode, !.action = action]

TwinNext == TwinDrift \/ TwinReset \/ TwinStep

SpecTwin == Init /\ [][TwinNext]_vars

-----------------------------------------------------------------------------
(* A used simulator against a new one.  The first simulator plays an       *)
(* episode of the main driver, with any seed, until the offer is open or   *)
(* the player is dead; it and a newly constructed simulator are then reset *)
(* with the same seed and stepped with the same actions.  hist.before is   *)
(* the first simulator as it was when reset was called.                    *)

\* reset(seed) on the first simulator, before its episode
FreshSeed ==
    /\ hist.op = "new"
    /\ \E seed \in Seeds :
        \E after \in {reset(sim, seed)} :
            /\ sim' = after
            /\ out' = reset_out(after)
            /\ hist' = [op |-> "seeded", mode |-> "Idle", action |-> NoInput, before |-> sim]
            /\ UNCHANGED <<twin, twinOut>>

\* the episode of the first simulator
FreshPlay ==
    /\ hist.op \in {"seeded", "step"}
    /\ StepPlay \/ StepChoose \/ StepDead

\* reset(seed) on both simulators, the first with the offer open or dead
FreshReset ==
    /\ hist.op = "step"
    /\ sim.state_.play_state # "Playing"
    /\ \E seed \in Seeds :
        \E a \in {reset(sim, seed)}, b \in {reset(twin, seed)} :
            /\ sim' = a
            /\ out' = reset_out(a)
            /\ twin' = b
            /\ twinOut' = reset_out(b)
            /\ hist' = [op |-> "reset", mode |-> "Idle", action |-> NoInput, before |-> sim]

\* step(action) on both simulators, with the same action
FreshStep ==
    /\ hist.op \in {"reset", "both"}
    /\ sim.state_.tick < TwinTicks
    /\ \E mode \in Inputs :
        /\ hist.op = "reset" \/ mode = hist.mode
        /\ \E action \in {InputAction(mode, sim.state_, -1)} :
            \E a \in {step_sim(sim, action)}, b \in {step_sim(twin, action)} :
                /\ sim' = a
                /\ out' = step_out(sim, a)
                /\ twin' = b
                /\ twinOut' = step_out(twin, b)
                /\ hist' = [op |-> "both", mode |-> mode, action |-> action,
                            before |-> NewSimulator]

FreshNext == FreshSeed \/ FreshPlay \/ FreshReset \/ FreshStep

SpecFresh == Init /\ [][FreshNext]_vars

-----------------------------------------------------------------------------
(* apply_upgrade alone: every sequence of calls on the upgrade levels of a *)
(* new simulator, while fewer than MaxStacks stacks have been applied.     *)

RECURSIVE LevelSum(_, _)
LevelSum(levels, id) ==
    IF id >= UpgradeCount THEN 0 ELSE levels[id] + LevelSum(levels, id + 1)

UpgradeInit ==
    /\ sim = NewSimulator
    /\ out = reset_out(NewSimulator)
    /\ twin = NewSimulator
    /\ twinOut = reset_out(NewSimulator)
    /\ hist = [op |-> "new", id |-> 0, before |-> NewSimulator]

ApplyUpgrade ==
    /\ LevelSum(sim.state_.upgrades.levels, 0) < MaxStacks
    /\ \E id \in UpgradeIds :
        /\ sim' = [sim EXCEPT !.state_.upgrades = apply_upgrade(@, id)]
        /\ hist' = [op |-> "apply", id |-> id, before |-> sim]
        /\ UNCHANGED <<out, twin, twinOut>>

SpecUpgrade == UpgradeInit /\ [][ApplyUpgrade]_vars

-----------------------------------------------------------------------------
(* The two clocks of step in float32, at the program's tick of 1/60 s.     *)
(* upgrade_clock and episode_time_s are read and written by lines 324,     *)
(* 398-404 and 424 alone, so their course is decided by the play state,    *)
(* the choices and the tick count.  A float32 x > 0 is [m, e] with         *)
(* 2^23 <= m < 2^24 and x = m * 2^(e - 23); zero is [m |-> 0, e |-> 0].     *)

\* steps are explored while state_.tick < ClockTicks
ClockTicks == 10812

RECURSIVE Pow2(_)
Pow2(k) == IF k = 0 THEN 1 ELSE 2 * Pow2(k - 1)

F32Zero == [m |-> 0, e |-> 0]

RECURSIVE F32Norm(_, _)
F32Norm(m, e) == IF m < Pow2(23) THEN F32Norm(2 * m, e - 1) ELSE [m |-> m, e |-> e]

\* the float32 of a positive integer below 2^24
F32Of(n) == F32Norm(n, 23)

\* the quotient q with remainder r out of g cut off, never rounded up
F32Round_toward_zero(q, r, g, e) == [m |-> q, e |-> e]

\* the quotient q with remainder r out of g rounded to nearest, ties to even
F32Round(q, r, g, e) ==
    IF 2 * r > g \/ (2 * r = g /\ q % 2 = 1)
    THEN IF q + 1 >= Pow2(24) THEN [m |-> Pow2(23), e |-> e + 1] ELSE [m |-> q + 1, e |-> e]
    ELSE [m |-> q, e |-> e]

\* a + b where q is the sum in units of a's last place, r out of g the rest
F32Sum(q, r, g, e) ==
    IF q >= Pow2(24)
    THEN F32Round(q \div 2, (q % 2) * g + r, 2 * g, e + 1)
    ELSE F32Round(q, r, g, e)

\* a + b in float32 (round to nearest even), for a = 0 or a >= b > 0
F32Add(a, b) ==
    IF a.m = 0 THEN b
    ELSE F32Sum(a.m + b.m \div Pow2(a.e - b.e), b.m % Pow2(a.e - b.e),
                Pow2(a.e - b.e), a.e)

\* a >= b, for a, b >= 0
F32Ge(a, b) ==
    IF a.m = 0 THEN b.m = 0
    ELSE b.m = 0 \/ a.e > b.e \/ (a.e = b.e /\ a.m >= b.m)

\* config.hpp: kFixedDt = 1.0f / 60.0f, the float32 nearest to 2^-6 * 64/60
kFixedDt32 == [m |-> (Pow2(30) + 60) \div 120, e |-> -6]

\* config.hpp: kEpisodeLimitSeconds = 180.0f
kEpisodeLimit32 == F32Of(180)

\* the clock fields after reset; since is a history field, the number of
\* gameplay ticks since upgrade_clock was last set to zero
ClockInit ==
    [play_state |-> "Playing", upgrade_clock |-> F32Zero, episode_time_s |-> F32Zero,
     tick |-> 0, upgrade_pause_ticks_ |-> 0, since |-> 0]

\* lines 309-318 and 323-325 without the count of line 313: an invalid
\* choice leaves the pause as it is
ClockChoice_no_timeout(c, choice) ==
    IF c.play_state # "ChoosingUpgrade" THEN c
    ELSE IF choice \notin 0 .. 2 THEN c
    ELSE [c EXCEPT !.play_state = "Playing", !.upgrade_clock = F32Zero,
                   !.upgrade_pause_ticks_ = 0, !.since = 0]

\* handle_upgrade_choice on the clock fields: lines 309-318 and 323-325
ClockChoice(c, choice) ==
    IF c.play_state # "ChoosingUpgrade" THEN c
    ELSE IF choice \notin 0 .. 2 /\ c.upgrade_pause_ticks_ + 1 < kUpgradeChoiceTimeoutTicks
    THEN [c EXCEPT !.upgrade_pause_ticks_ = @ + 1]
    ELSE [c EXCEPT !.play_state = "Playing", !.upgrade_clock = F32Zero,
                   !.upgrade_pause_ticks_ = 0, !.since = 0]

\* lines 387 and 398-404, given the clock after line 398: dies tells
\* whether line 387 found the player without health
ClockAdvance(c, dies, clock) ==
    [c EXCEPT !.play_state = IF F32Ge(clock, F32Of(20)) THEN "ChoosingUpgrade"
                             ELSE IF dies THEN "Dead" ELSE @,
              !.upgrade_clock = clock,
              !.episode_time_s = F32Add(@, kFixedDt32),
              !.tick = @ + 1,
              !.since = @ + 1]

\* lines 361-404 on the clock fields
ClockTick(c, dies) ==
    IF c.play_state = "Playing"
    THEN ClockAdvance(c, dies, F32Add(c.upgrade_clock, kFixedDt32))
    ELSE c

\* lines 423-424
ClockResult(c) ==
    [terminated |-> c.play_state = "Dead",
     truncated |-> F32Ge(c.episode_time_s, kEpisodeLimit32)]

ClockStart ==
    /\ sim = ClockInit
    /\ out = [terminated |-> FALSE, truncated |-> FALSE]
    /\ twin = 0
    /\ twinOut = 0
    /\ hist = [op |-> "new", before |-> ClockInit, was |-> out]

\* reset(seed)
ClockReset ==
    /\ hist.op = "step"
    /\ sim' = ClockInit
    /\ out' = [terminated |-> FALSE, truncated |-> FALSE]
    /\ hist' = [op |-> "reset", before |-> sim, was |-> out]
    /\ UNCHANGED <<twin, twinOut>>

\* step(action): the action's upgrade_choice, and whether the tick is lethal
ClockStep ==
    /\ sim.tick < ClockTicks
    /\ \E choice \in {-1, 1}, dies \in BOOLEAN :
        \E after \in {ClockTick(ClockChoice(sim, choice), dies)} :
            /\ sim' = after
            /\ out' = ClockResult(after)
            /\ hist' = [op |-> "step", before |-> sim, was |-> out]
            /\ UNCHANGED <<twin, twinOut>>

ClockNext == ClockReset \/ ClockStep

SpecClock == ClockStart /\ [][ClockNext]_vars

\* one episode under a driver that calls step for ever: no reset, and step
\* is taken whenever it is enabled
SpecEpisode == ClockStart /\ [][ClockStep]_vars /\ WF_vars(ClockStep)

-----------------------------------------------------------------------------
(* Bullets against a group of zombies.  The world is the one after the     *)
(* first tick of an episode, with Piercing Rounds owned at some level, as  *)
(* it is after that many offers, and a group of zombies ahead of the       *)
(* player; the driver steps it with the trigger held or released.          *)

\* steps are explored while state_.tick < PierceTicks
PierceTicks == 5

\* where the zombies of the group may stand, relative to the player, in
\* arena units
PierceRow == << Vec2(90, 0), Vec2(86, 12), Vec2(86, -12), Vec2(98, 6), Vec2(160, 0) >>

\* a zombie as spawn_zombie makes it at difficulty 0, standing at the
\* offset d from pos
ZombieAt(pos, d) ==
    [pos |-> Vec2(pos.x + d.x * PosScale, pos.y + d.y * PosScale), vel |-> Vec2(0, 0),
     hp |-> 26 * HpUnit, slow_timer |-> 0, touch_cd |-> 0]

RECURSIVE PickRowOf(_, _, _, _)
\* the zombies of the places in keep, in the order of row
PickRowOf(row, pos, keep, i) ==
    IF i > Len(row) THEN <<>>
    ELSE (IF i \in keep THEN <<ZombieAt(pos, row[i])>> ELSE <<>>)
         \o PickRowOf(row, pos, keep, i + 1)

PickRow(pos, keep, i) == PickRowOf(PierceRow, pos, keep, i)

\* the simulator s with Piercing Rounds at level p and the zombies of keep
PierceWorld(s, p, keep) ==
    [s EXCEPT !.state_.upgrades.levels[PiercingRounds] = p,
              !.state_.zombies = PickRow(s.state_.player.pos, keep, 1)]

PierceInit ==
    /\ \E p \in 0 .. build_upgrade_catalog[PiercingRounds] :
        \E keep \in (SUBSET (1 .. Len(PierceRow))) \ {{}} :
            sim = PierceWorld(step_sim(NewSimulator, NoInput), p, keep)
    /\ out = reset_out(NewSimulator)
    /\ twin = NewSimulator
    /\ twinOut = reset_out(NewSimulator)
    /\ hist = [op |-> "new", mode |-> "Idle", action |-> NoInput, before |-> NewSimulator]

\* step(action) with the given action
PierceStep(mode, action) ==
    /\ sim.state_.tick < PierceTicks
    /\ \E after \in {step_sim(sim, action)} :
        /\ sim' = after
        /\ out' = step_out(sim, after)
        /\ hist' = [op |-> "step", mode |-> mode, action |-> action, before |-> sim]
        /\ UNCHANGED <<twin, twinOut>>

\* a step with the trigger held, the aim along +x
PierceFire == PierceStep("Engage", ShootAlong(Vec2(DirUnit, 0)))

\* a step with the trigger released
PierceHold == PierceStep("Idle", NoInput)

PierceNext == PierceFire \/ PierceHold

SpecPierce == PierceInit /\ [][PierceNext]_vars

-----------------------------------------------------------------------------
(* Bullets and the Ring of Fire.  The world is the one after the first     *)
(* tick of an episode, with Ring of Fire owned at level 1 or 2 and zombies *)
(* ahead of the player, outside the ring; the driver steps it with the     *)
(* trigger held or released.                                               *)

\* steps are explored while state_.tick < RingTicks
RingTicks == 9

\* where the zombies may stand, relative to the player, in arena units
RingRow == << Vec2(173, 0), Vec2(120, 0) >>

\* the simulator s with Ring of Fire at level r and the zombies of keep
RingWorld(s, r, keep) ==
    [s EXCEPT !.state_.upgrades.levels[RingOfFire] = r,
              !.state_.zombies = PickRowOf(RingRow, s.state_.player.pos, keep, 1)]

RingInit ==
    /\ \E r \in 1 .. 2 :
        \E keep \in (SUBSET (1 .. Len(RingRow))) \ {{}} :
            sim = RingWorld(step_sim(NewSimulator, NoInput), r, keep)
    /\ out = reset_out(NewSimulator)
    /\ twin = NewSimulator
    /\ twinOut = reset_out(NewSimulator)
    /\ hist = [op |-> "new", mode |-> "Idle", action |-> NoInput, before |-> NewSimulator]

\* step(action) with the given action
RingStep(mode, action) ==
    /\ sim.state_.tick < RingTicks
    /\ \E after \in {step_sim(sim, action)} :
        /\ sim' = after
        /\ out' = step_out(sim, after)
        /\ hist' = [op |-> "step", mode |-> mode, action |-> action, before |-> sim]
        /\ UNCHANGED <<twin, twinOut>>

\* a step with the trigger held, the aim along +x
RingFire == RingStep("Engage", ShootAlong(Vec2(DirUnit, 0)))

\* a step with the trigger released
RingHold == RingStep("Idle", NoInput)

RingNext == RingFire \/ RingHold

SpecRing == RingInit /\ [][RingNext]_vars

-----------------------------------------------------------------------------
(* A player one contact hit from death among zombies.  The world is the    *)
(* one after the first tick of an episode with 10 health left, Second Wind *)
(* owned or not, the first zombies of ReviveRow around the player and the  *)
(* upgrade clock some ticks before the offer; the driver steps it with the *)
(* default Action and resets it after the death.                           *)

\* steps are explored while state_.tick < ReviveTicks
ReviveTicks == 48

\* the offer falls due ReviveLead + k ticks after the start, k in 0 .. ReviveSpread
ReviveLead == 20
ReviveSpread == 24

\* where the zombies stand, relative to the player, in arena units
ReviveRow == << Vec2(30, 0), Vec2(-30, 0), Vec2(0, -30), Vec2(22, -22), Vec2(-22, -22) >>

\* the simulator s with Second Wind at level sw, 10 health, the first n
\* zombies of ReviveRow and the offer due in lead ticks
ReviveWorld(s, sw, n, lead) ==
    [s EXCEPT !.state_.upgrades.levels[SecondWind] = sw,
              !.state_.player.health = 10,
              !.state_.zombies = PickRowOf(ReviveRow, s.state_.player.pos, 1 .. n, 1),
              !.state_.upgrade_clock = 20 * TimeUnit - lead * kFixedDt]

ReviveInit ==
    /\ \E sw \in 0 .. build_upgrade_catalog[SecondWind] :
        \E n \in 3 .. Len(ReviveRow) :
            \E lead \in ReviveLead .. (ReviveLead + ReviveSpread) :
                sim = ReviveWorld(step_sim(NewSimulator, NoInput), sw, n, lead)
    /\ out = reset_out(NewSimulator)
    /\ twin = NewSimulator
    /\ twinOut = reset_out(NewSimulator)
    /\ hist = [op |-> "new", mode |-> "Idle", action |-> NoInput, before |-> NewSimulator]

\* step(action) with the default Action
ReviveStep ==
    /\ sim.state_.tick < ReviveTicks
    /\ sim.state_.play_state # "Dead"
    /\ \E after \in {step_sim(sim, NoInput)} :
        /\ sim' = after
        /\ out' = step_out(sim, after)
        /\ hist' = [op |-> "step", mode |-> "Idle", action |-> NoInput, before |-> sim]
        /\ UNCHANGED <<twin, twinOut>>

\* reset(0) after the death
ReviveReset ==
    /\ sim.state_.play_state = "Dead"
    /\ \E after \in {reset(sim, 0)} :
        /\ sim' = after
        /\ out' = reset_out(after)
        /\ hist' = [op |-> "reset", mode |-> "Idle", action |-> NoInput, before |-> sim]
        /\ UNCHANGED <<twin, twinOut>>

ReviveNext == ReviveStep \/ ReviveReset

SpecRevive == ReviveInit /\ [][ReviveNext]_vars

-----------------------------------------------------------------------------
(* The claims *)

TerminatedIffNoHealth ==
    hist.op = "step" =>
        (out.terminated <=>
            /\ sim.state_.player.health <= 0
            /\ ~(sim.state_.upgrades.levels[SecondWind] > 0
                 /\ ~sim.state_.upgrades.second_wind_used))

\* C3: a step taken in play state Dead returns in play state Dead with
\* terminated true and leaves the world state, the generator and the pause
\* counter as they were.
DeadIsTerminal ==
    (hist.op = "step" /\ hist.before.state_.play_state = "Dead") =>
        /\ sim.state_.play_state = "Dead"
        /\ out.terminated
        /\ sim.state_ = hist.before.state_
        /\ sim = hist.before

\* C3: a step with a valid upgrade choice and the trigger held was taken on
\* a dead player
DeadIsTerminalWitness ==
    /\ hist.op = "step"
    /\ hist.before.state_.play_state = "Dead"
    /\ hist.action.upgrade_choice \in 0 .. 2
    /\ hist.action.shoot

\* C4: at the return of every step, stats.kills is the number of zombies
\* whose hit points went from > 0 to <= 0 since reset.
KillsCountCrossings ==
    sim.state_.stats.kills = sim.crossed

MagWithinCapacity ==
    /\ sim.state_.player.mag <= sim.state_.player.mag_capacity
    /\ sim.state_.player.mag_capacity = 12 + 3 * sim.state_.upgrades.levels[ExtendedMag]

\* C6: the step that applied Extended Mag returned with the larger capacity
\* and a magazine refilled beyond the old one
MagWithinCapacityWitness ==
    /\ hist.op = "step"
    /\ hist.before.state_.upgrades.levels[ExtendedMag] = 0
    /\ sim.state_.upgrades.levels[ExtendedMag] = 1
    /\ sim.state_.player.mag > 12

\* C7: at the return of reset and of every step, the player and every
\* zombie are inside [0, kArenaWidth] x [0, kArenaHeight].
InsideArena(pos) ==
    pos.x >= 0 /\ pos.x <= kArenaWidth /\ pos.y >= 0 /\ pos.y <= kArenaHeight

PositionsInBounds ==
    /\ InsideArena(sim.state_.player.pos)
    /\ \A k \in 1 .. Len(sim.state_.zombies) : InsideArena(sim.state_.zombies[k].pos)

\* C7: the step spawned a zombie, which stands on the right or the lower
\* edge of the arena, while the player has moved
PositionsInBoundsWitness ==
    /\ hist.op = "step"
    /\ Len(sim.state_.zombies) > Len(hist.before.state_.zombies)
    /\ LET z == sim.state_.zombies[Len(sim.state_.zombies)]
       IN  z.pos.x = kArenaWidth \/ z.pos.y = kArenaHeight
    /\ sim.state_.player.pos.x > kPlayerSpawnX + 100 * PosScale

\* C8 (SpecUpgrade): no level exceeds its catalog max_stacks, and a call on
\* a level that is at its max_stacks changes nothing; a call below it
\* raises that level by one.
UpgradeCap ==
    /\ \A id \in UpgradeIds :
          sim.state_.upgrades.levels[id] <= build_upgrade_catalog[id]
    /\ sim.state_.upgrades.levels[SecondWind] <= 1
    /\ hist.op = "apply" =>
          LET was == hist.before.state_.upgrades
          IN  IF was.levels[hist.id] >= build_upgrade_catalog[hist.id]
              THEN sim.state_.upgrades = was
              ELSE sim.state_.upgrades = [was EXCEPT !.levels[hist.id] = @ + 1]

\* C8: Second Wind was applied at level 1, its max_stacks
UpgradeCapWitness ==
    /\ hist.op = "apply"
    /\ hist.id = SecondWind
    /\ hist.before.state_.upgrades.levels[SecondWind] = 1
    /\ sim.state_.upgrades.levels[RingOfFire] = 5

ForcedPickOnTimeout ==
    /\ sim.state_.play_state # "ChoosingUpgrade" => sim.upgrade_pause_ticks_ = 0
    /\ sim.upgrade_pause_ticks_ < kUpgradeChoiceTimeoutTicks
    /\ (/\ hist.op = "step"
        /\ hist.before.state_.play_state = "ChoosingUpgrade"
        /\ hist.action.upgrade_choice \notin 0 .. 2) =>
           LET was == hist.before.state_
               card == was.upgrade_offer[1]
           IN  IF hist.before.upgrade_pause_ticks_ + 1 = kUpgradeChoiceTimeoutTicks
               THEN /\ sim.state_.play_state # "ChoosingUpgrade"
                    /\ sim.state_.upgrades.levels =
                          [was.upgrades.levels EXCEPT
                              ![card] = Min(@ + 1, build_upgrade_catalog[card])]
                    /\ sim.state_.tick = was.tick + 1
               ELSE /\ sim = [hist.before EXCEPT !.upgrade_pause_ticks_ = @ + 1]
                    /\ sim.state_.play_state = "ChoosingUpgrade"

\* C10: the kUpgradeChoiceTimeoutTicks-th step without a valid choice has
\* applied the first card
ForcedPickOnTimeoutWitness ==
    /\ hist.op = "step"
    /\ hist.before.state_.play_state = "ChoosingUpgrade"
    /\ hist.before.upgrade_pause_ticks_ = kUpgradeChoiceTimeoutTicks - 1
    /\ hist.action.upgrade_choice \notin 0 .. 2
    /\ sim.state_.play_state = "Playing"
    /\ sim.state_.upgrades.levels[hist.before.state_.upgrade_offer[1]] = 1

\* C11: a step taken while an offer is open, with a choice outside 0 .. 2
\* and before the kUpgradeChoiceTimeoutTicks-th such step, leaves every
\* field of the world state as it was (tick, episode time, difficulty,
\* player, zombies, bullets, upgrade levels, offer, spawn budget, upgrade
\* clock, stats) and draws nothing from the generator; only the pause
\* counter advances, by one.
PausedWhileChoosing ==
    (/\ hist.op = "step"
     /\ hist.before.state_.play_state = "ChoosingUpgrade"
     /\ hist.action.upgrade_choice \notin 0 .. 2
     /\ hist.before.upgrade_pause_ticks_ + 1 < kUpgradeChoiceTimeoutTicks) =>
        /\ sim.state_ = hist.before.state_
        /\ sim.rng_ = hist.before.rng_
        /\ sim.crossed = hist.before.crossed
        /\ sim.upgrade_pause_ticks_ = hist.before.upgrade_pause_ticks_ + 1
        /\ out.info.kills = hist.before.state_.stats.kills
        /\ out.info.shots_fired = hist.before.state_.stats.shots_fired
        /\ ~out.terminated

\* C11: the second step in a row without a valid choice was taken with the
\* trigger held, zombies and a loaded magazine in the world, and the offer
\* is still open
PausedWhileChoosingWitness ==
    /\ hist.op = "step"
    /\ hist.before.state_.play_state = "ChoosingUpgrade"
    /\ hist.before.upgrade_pause_ticks_ = 1
    /\ hist.action.upgrade_choice \notin 0 .. 2
    /\ hist.action.shoot
    /\ hist.before.state_.player.mag > 0
    /\ hist.before.state_.player.health > 0
    /\ Len(hist.before.state_.zombies) > 0
    /\ sim.state_.play_state = "ChoosingUpgrade"

\* C12 (SpecClock): at the return of every step, truncated is true exactly
\* when episode_time_s >= kEpisodeLimitSeconds, which is exactly when 10800
\* gameplay ticks of 1/60 s have run since reset; episode_time_s never
\* decreases from one step to the next, and a step after a truncated one
\* is truncated.
Truncation ==
    /\ out.truncated <=> F32Ge(sim.episode_time_s, kEpisodeLimit32)
    /\ out.truncated <=> sim.tick >= 180 * 60
    /\ hist.op = "step" =>
          /\ F32Ge(sim.episode_time_s, hist.before.episode_time_s)
          /\ hist.was.truncated => out.truncated

\* C12: a step that ran no gameplay tick, an upgrade offer being open,
\* reported truncated after a truncated step, the offers before it having
\* been resolved by choices and by timeouts
TruncationWitness ==
    /\ hist.op = "step"
    /\ hist.was.truncated
    /\ out.truncated
    /\ sim.tick = hist.before.tick
    /\ sim.play_state = "ChoosingUpgrade"
    /\ sim.upgrade_pause_ticks_ > 0

\* C13: the observation returned by reset and by every step has the same
\* length, 11 player features + 8 zombie blocks of 5 + 16 rays of 2 +
\* difficulty + pending flag + 3 offer ids + 8 upgrade levels = 96,
\* whatever the number of zombies and the play state.
ObservationShape ==
    /\ Len(out.observation) = 96
    /\ Len(out.observation)
          = 11 + kZombieObsCount * 5 + kRayCount * 2 + 1 + 1 + 3 + UpgradeCount
    /\ out.observation = build_observation(sim.state_)

\* C13: a step returned the observation of a world with more than eight
\* zombies while an upgrade offer is open, the pending flag (feature 85)
\* set
ObservationShapeWitness ==
    /\ hist.op = "step"
    /\ sim.state_.play_state = "ChoosingUpgrade"
    /\ Len(sim.state_.zombies) > kZombieObsCount
    /\ Len(out.observation) = 96
    /\ out.observation[85] = ObsUnit

\* C14: a bullet created with pierce count p, the Piercing Rounds level
\* at the shot, registers at most p + 1 zombie hits: a bullet still in the
\* list has registered at most p and has p minus that many left, and a
\* bullet erased by update_bullets has registered at most p + 1; a bullet
\* whose hits reach p + 1 is erased in the tick of that hit.
PierceExhaustion ==
    /\ \A i \in 1 .. Len(sim.state_.bullets) :
          LET b == sim.state_.bullets[i]
          IN  /\ b.hits <= b.fired_pierce
              /\ b.pierce = b.fired_pierce - b.hits
              /\ b.fired_pierce <= sim.state_.upgrades.levels[PiercingRounds]
    /\ \A i \in 1 .. Len(sim.gone) :
          LET b == sim.gone[i]
          IN  /\ b.hits <= b.fired_pierce + 1
              /\ b.pierce = b.fired_pierce - b.hits
    /\ hist.op = "step" /\ sim.state_.tick > hist.before.state_.tick =>
          sim.state_.stats.shots_hit - hist.before.state_.stats.shots_hit
             <= (sim.state_.upgrades.levels[PiercingRounds] + 1)
                * (Len(hist.before.state_.bullets) + 1)

\* C14: a bullet fired in this step with pierce count 2 registered three
\* hits in the tick and was erased in it, no bullet being left in the list
PierceExhaustionWitness ==
    /\ hist.op = "step"
    /\ Len(hist.before.state_.bullets) = 0
    /\ sim.state_.stats.shots_fired = hist.before.state_.stats.shots_fired + 1
    /\ sim.state_.stats.shots_hit = hist.before.state_.stats.shots_hit + 3
    /\ Len(sim.state_.bullets) = 0
    /\ Len(sim.gone) = 1
    /\ sim.gone[1].fired_pierce = 2
    /\ sim.gone[1].hits = 3

\* C15: a step in which a zombie deals contact damage returns with the
\* player's invulnerability timer positive, and the player loses at most
\* one contact hit, 10 health, in the tick, however many zombies touch.
ContactStartsInvulnerability ==
    (/\ hist.op = "step"
     /\ sim.state_.stats.damage_taken > hist.before.state_.stats.damage_taken) =>
        /\ sim.state_.player.invuln_timer > 0
        /\ sim.state_.stats.damage_taken - hist.before.state_.stats.damage_taken <= 10



StatsMonotone ==
    hist.op = "step" =>
        LET prev == hist.before.state_.stats
            now == sim.state_.stats
        IN  /\ now.kills >= prev.kills
            /\ now.damage_taken >= prev.damage_taken
            /\ now.shots_fired >= prev.shots_fired
            /\ now.shots_hit >= prev.shots_hit
            /\ now.damage_dealt >= prev.damage_dealt
            /\ out.info.kills = now.kills
            /\ out.info.damage_taken = now.damage_taken
            /\ out.info.shots_fired = now.shots_fired
            /\ out.info.hits = now.shots_hit
            /\ out.info.damage_dealt = now.damage_dealt

\* a step in which a shot is fired, a bullet hits and a zombie is killed
StatsMonotoneWitness ==
    /\ hist.op = "step"
    /\ sim.state_.stats.shots_fired > hist.before.state_.stats.shots_fired
    /\ sim.state_.stats.shots_hit > hist.before.state_.stats.shots_hit
    /\ sim.state_.stats.damage_dealt > hist.before.state_.stats.damage_dealt
    /\ sim.state_.stats.kills > hist.before.state_.stats.kills
    /\ hist.before.state_.stats.damage_taken > 0

\* C18 (SpecFresh): reset(seed) on a simulator that has played, the offer
\* open with some invalid choices counted or the player dead, leaves exactly
\* the simulator that reset(seed) leaves on a newly constructed one: tick 0,
\* time 0, Playing, full health, stamina and magazine, no zombies, no
\* bullets, all upgrade levels 0, Second Wind unused, no invalid choice
\* counted, the generator reseeded; and the two stay equal, with equal
\* results, at every step taken with the same actions.
ResetErasesHistory ==
    /\ hist.op \in {"reset", "both"} => (sim = twin /\ out = twinOut)
    /\ hist.op = "reset" =>
        LET g == sim.state_
        IN  /\ g.tick = 0
            /\ g.episode_time_s = 0
            /\ g.upgrade_clock = 0
            /\ g.play_state = "Playing"
            /\ g.player = PlayerInit
            /\ g.zombies = <<>>
            /\ g.bullets = <<>>
            /\ g.stats = GameStateInit.stats
            /\ \A id \in UpgradeIds : g.upgrades.levels[id] = 0
            /\ ~g.upgrades.second_wind_used
            /\ sim.upgrade_pause_ticks_ = 0
            /\ sim.rng_ = roll_upgrade_offer([sim EXCEPT !.rng_ = reseed(g.seed)]).rng_

\* reset called with the offer open and two invalid choices counted, after
\* upgrades were taken or damage suffered
ResetErasesHistoryWitness ==
    /\ hist.op = "reset"
    /\ hist.before.state_.play_state = "ChoosingUpgrade"
    /\ hist.before.upgrade_pause_ticks_ = kUpgradeChoiceTimeoutTicks - 1
    /\ hist.before.state_.player.health < 100
    /\ Len(hist.before.state_.zombies) > 0
    /\ hist.before.rng_ # sim.rng_

\* C19 (SpecClock): the upgrade clock is 0 at reset, changes only on
\* gameplay ticks, and play_state becomes ChoosingUpgrade on exactly the
\* 1200th gameplay tick of 1/60 s since the clock was last zero.
UpgradeCadence ==
    /\ hist.op = "reset" => sim.upgrade_clock = F32Zero
    /\ hist.op = "step" =>
        /\ sim.tick = hist.before.tick =>
              sim.upgrade_clock \in {hist.before.upgrade_clock, F32Zero}
        /\ (sim.tick > hist.before.tick /\ sim.play_state = "ChoosingUpgrade")
              <=> (sim.tick > hist.before.tick /\ sim.since = 20 * 60)

\* C20: after reset, while every step has been taken with the default
\* Action, no zombie is killed, no shot is fired and the player keeps the
\* health of the reset.
IdleScenario ==
    (/\ hist.op = "step"
     /\ hist.mode = "Idle"
     /\ sim.state_.tick <= HoldTicks) =>
        /\ sim.state_.stats.kills = 0
        /\ sim.state_.stats.shots_fired = 0
        /\ sim.state_.player.health = PlayerInit.health

\* C21: the reward of a step is a function of the changes of kills,
\* shots_hit, shots_fired, damage_dealt and damage_taken since the snapshot
\* taken at step entry and of the distance of the nearest zombie at step
\* end: it is the reward of the same world with the changes as totals and an
\* all-zero snapshot.  In a step that runs no gameplay tick it is the 0.02
\* bonus minus the proximity penalty 0.0008 * (120 - nearest).
RewardFromDeltas ==
    hist.op = "step" =>
        LET prev == hist.before.state_.stats
            now == sim.state_.stats
            delta == [kills |-> now.kills - prev.kills,
                      damage_taken |-> now.damage_taken - prev.damage_taken,
                      shots_fired |-> now.shots_fired - prev.shots_fired,
                      shots_hit |-> now.shots_hit - prev.shots_hit,
                      damage_dealt |-> now.damage_dealt - prev.damage_dealt]
            near == nearest_zombie(sim.state_)
        IN  /\ out.reward
                  = compute_reward([sim.state_ EXCEPT !.stats = delta], RuntimeStatsInit)
            /\ sim.state_.tick = hist.before.state_.tick =>
                  /\ delta = RuntimeStatsInit
                  /\ out.reward = 2000 - (IF near < 120 * PosScale
                                          THEN Quot((120 * PosScale - near) * 80, PosScale)
                                          ELSE 0)

\* C21: a step that killed a zombie after earlier kills, hits and damage
RewardFromDeltasWitness ==
    /\ hist.op = "step"
    /\ hist.before.state_.stats.kills > 0
    /\ hist.before.state_.stats.damage_taken > 0
    /\ sim.state_.stats.kills > hist.before.state_.stats.kills
    /\ sim.state_.stats.shots_hit > hist.before.state_.stats.shots_hit

\* C22: at the return of every step, no zombie with hit points <= 0 is left
\* in the zombie list.
NoDeadZombieListed ==
    hist.op = "step" =>
        \A k \in 1 .. Len(sim.state_.zombies) : sim.state_.zombies[k].hp > 0

ReloadProtocol ==
    hist.op = "step" =>
        LET was == hist.before.state_.player
            now == sim.state_.player
        IN  /\ now.mag > was.mag => (was.reload_timer > 0 /\ now.reload_timer = 0)
            /\ sim.state_.stats.shots_fired > hist.before.state_.stats.shots_fired
                  => now.reload_timer = 0

\* C25: at the return of every step the zombie list holds at most
\* 16 + floor(18 * difficulty) zombies, with difficulty the elapsed time of
\* the episode over 90 s; the spawn budget is never negative, and a
\* gameplay tick takes exactly one unit of it for every zombie it spawns
\* (the zombies added to the list, the erased ones being the new kills).
SpawnCap ==
    LET g == sim.state_
        b == hist.before.state_
        spawned == Len(g.zombies) - Len(b.zombies) + (g.stats.kills - b.stats.kills)
    IN  /\ Len(g.zombies) <= 16 + (18 * g.difficulty_scalar) \div DiffUnit
        /\ Len(g.zombies) <= 16 + (18 * g.episode_time_s) \div (90 * TimeUnit)
        /\ g.spawn_budget >= 0
        /\ (hist.op = "step" /\ g.tick > b.tick) =>
              /\ g.difficulty_scalar = b.episode_time_s
              /\ spawned >= 0
              /\ g.spawn_budget
                    = b.spawn_budget + (45000 + b.episode_time_s) * kFixedDt
                      - spawned * BudgetUnit
        /\ (hist.op = "step" /\ g.tick = b.tick) =>
              (g.spawn_budget = b.spawn_budget /\ Len(g.zombies) = Len(b.zombies))

\* C25: a step returned with the list at the cap, raised above 16 by the
\* difficulty, and a whole unit of budget held back
SpawnCapWitness ==
    /\ hist.op = "step"
    /\ sim.state_.tick > hist.before.state_.tick
    /\ Len(sim.state_.zombies) > 16
    /\ Len(sim.state_.zombies) = 16 + (18 * sim.state_.difficulty_scalar) \div DiffUnit
    /\ sim.state_.spawn_budget > BudgetUnit

\* C26 as stated: with k < 8 zombies, each of the 8 - k unused zombie blocks
\* of the observation consists of five zeros.
ZombieSlotsAllZero ==
    \A i \in 0 .. (kZombieObsCount - 1) :
        i >= Len(sim.state_.zombies) =>
            SubSeq(out.observation, 11 + 5 * i + 1, 11 + 5 * i + 5) = <<0, 0, 0, 0, 0>>

\* C26, amended: with k < 8 zombies, each of the 8 - k unused zombie blocks
\* of the observation is (0, 0, 1, 0, 0), relative position and velocity 0
\* and distance 1; the used blocks are in ascending order of distance to the
\* player, block i being that of the zombie of rank i: at most i zombies are
\* nearer than it and at least i + 1 are as near.
ZombieSlotsPadded ==
    LET g == sim.state_
        k == Len(g.zombies)
        obs == out.observation
        far(z) == Quot(length(Vec2(z.pos.x - g.player.pos.x, z.pos.y - g.player.pos.y))
                       * ObsUnit, 500 * PosScale)
        shown(i) == obs[11 + 5 * i + 3]
    IN  \A i \in 0 .. (kZombieObsCount - 1) :
            /\ i >= k =>
                  SubSeq(obs, 11 + 5 * i + 1, 11 + 5 * i + 5) = <<0, 0, ObsUnit, 0, 0>>
            /\ i < k =>
                  /\ i > 0 => shown(i - 1) <= shown(i)
                  /\ Cardinality({j \in 1 .. k : far(g.zombies[j]) < shown(i)}) <= i
                  /\ Cardinality({j \in 1 .. k : far(g.zombies[j]) <= shown(i)}) >= i + 1

\* C26: a step returned the observation of a world with two to seven
\* zombies in which the first zombie of the list is not the nearest
ZombieSlotsPaddedWitness ==
    /\ hist.op = "step"
    /\ Len(sim.state_.zombies) \in 2 .. (kZombieObsCount - 1)
    /\ out.observation[11 + 3]
          < Quot(length(Vec2(sim.state_.zombies[1].pos.x - sim.state_.player.pos.x,
                             sim.state_.zombies[1].pos.y - sim.state_.player.pos.y))
                 * ObsUnit, 500 * PosScale)

\* the steps an episode can still take at most before one returns truncated:
\* kUpgradeChoiceTimeoutTicks for each gameplay tick short of the limit, less
\* the steps the open pause has already waited
StepsLeft(c) ==
    (180 * 60 - c.tick) * kUpgradeChoiceTimeoutTicks
        + (kUpgradeChoiceTimeoutTicks - 1 - c.upgrade_pause_ticks_)

\* a step of an episode that has not ended takes the simulator nearer to
\* the time limit: a gameplay tick runs, or the pause counter rises below
\* the timeout
StepNearsLimit ==
    (hist'.op = "step" /\ ~out.terminated /\ ~out.truncated) =>
        /\ StepsLeft(sim) >= 0
        /\ StepsLeft(sim') < StepsLeft(sim)
        /\ \/ sim'.tick = sim.tick + 1
           \/ /\ sim'.tick = sim.tick
              /\ sim.play_state = "ChoosingUpgrade"
              /\ sim'.upgrade_pause_ticks_ = sim.upgrade_pause_ticks_ + 1
              /\ sim'.upgrade_pause_ticks_ < kUpgradeChoiceTimeoutTicks

\* C27 (SpecEpisode): whatever the actions, valid upgrade choices or none,
\* every step of an episode that has not ended either runs a gameplay tick
\* or counts towards the choice timeout, so that at most StepsLeft steps
\* remain, and some step returns terminated or truncated.
EpisodeEnds ==
    /\ [][StepNearsLimit]_vars
    /\ <>(out.terminated \/ out.truncated)

\* C27: a step returned truncated for the first time, the player alive,
\* after eight upgrade offers and their pauses
EpisodeEndsWitness ==
    /\ hist.op = "step"
    /\ out.truncated
    /\ ~out.terminated
    /\ ~hist.was.truncated
    /\ sim.since = 180 * 60 - 8 * (20 * 60 + 1)

\* C28: at reset and after every step mag + reserve + shots_fired is the
\* initial total of 12 + 120 = 132 rounds; over a step at most one shot is
\* fired, the reserve never grows, and the magazine changes by the rounds
\* that left the reserve less the shot, also on the step that changes the
\* magazine capacity.
AmmoConserved ==
    LET now == sim.state_.player
        was == hist.before.state_.player
        fired == sim.state_.stats.shots_fired - hist.before.state_.stats.shots_fired
        moved == was.reserve - now.reserve
    IN  /\ now.mag + now.reserve + sim.state_.stats.shots_fired = 12 + 120
        /\ hist.op = "reset" => (now.mag = 12 /\ now.reserve = 120)
        /\ hist.op = "step" =>
              /\ fired \in 0 .. 1
              /\ moved >= 0
              /\ now.mag = was.mag + moved - fired
              /\ moved > 0 => now.mag + fired = now.mag_capacity

\* C28: a step raised the magazine capacity by an Extended Mag choice, shots
\* having been fired before, and moved rounds from the reserve into the
\* larger magazine
AmmoConservedWitness ==
    /\ hist.op = "step"
    /\ sim.state_.player.mag_capacity > hist.before.state_.player.mag_capacity
    /\ hist.before.state_.stats.shots_fired > 0
    /\ sim.state_.player.reserve < hist.before.state_.player.reserve
    /\ sim.state_.player.mag > hist.before.state_.player.mag

=============================================================================
